---- MODULE Spec2Model ----
(***************************************************************************)
(* Model of the caching layer of genomcp-workers:                          *)
(*   - VariantRegistry (src/src/cache/variant-registry.ts), a Durable       *)
(*     Object with an in-memory index over persistent storage;             *)
(*   - KVCache (kv-store), a namespaced JSON wrapper over a KV namespace.   *)
(* Every `await` of the code is a suspension point: a handler runs         *)
(* atomically from one await to the next.                                  *)
(***************************************************************************)
EXTENDS Integers, Sequences, FiniteSets, TLC

\* ------------------------------------------------------------------ bounds
MaxReq == 2        \* request slots of one registry instance (concurrency)
MaxTime == 2       \* Date.now() takes the values 1..MaxTime
MaxOps == 3        \* requests issued in one run
MaxLifeOps == 5    \* requests issued in one run on a single hgvs
MaxProc == 2       \* getOrSet calls in progress at the same time
MaxClock == 1      \* the cache clock takes the values 0..MaxClock (seconds)
MaxKvOps == 2      \* cache operations started in one run
MaxTasks == 4      \* tasks of one batchExecute call

\* ------------------------------------------------------- registry: values
\* the keys of the shard, in the order storage.list returns them
KeySeq == <<"h1", "h2">>
Keys == {KeySeq[i] : i \in DOMAIN KeySeq}
Reqs == 1..MaxReq
ObjIds == 1..(2 * Len(KeySeq) + MaxReq)

\* "no such entry" (Map.get gives undefined, storage holds nothing)
NoEntry == [absent |-> TRUE]

\* request bodies of POST /variant: the caller's VariantEntry fields
\* (the second one also carries counters of the caller's own)
Bodies ==
  { [hgvs |-> k, gene |-> "TP53", interpretation |-> "i1", sources |-> <<"X">>] :
      k \in Keys }
  \cup
  { [hgvs |-> k, gene |-> "BRAF", interpretation |-> "i2", sources |-> <<"X", "Y">>,
     created_at |-> 9, updated_at |-> 9, access_count |-> 9] :
      k \in Keys }

NoBody == [absent |-> TRUE]

Methods == {"GET", "POST", "DELETE", "STATS", "OTHER"}

VARIABLES
  storage,     \* state.storage: key -> persisted VariantEntry or NoEntry
  variants,    \* this.variants: key -> object id, 0 when the Map has no such key
  heap,        \* the VariantEntry objects the Map and the handlers refer to
  sq,          \* storage operations issued and not yet completed, in issue order
  req,         \* the requests of the instance: position and locals of each fetch()
  now,         \* Date.now()
  ops,         \* history: requests issued so far
  listCalls,   \* history: storage.list calls of this instance
  base,        \* history: access_count of a key when it was last stored/deleted
  reads,       \* history: successful getVariant responses for a key since then
               \* (-1: the key was deleted and has not been stored since)
  anyFail,     \* history: a storage write of this instance has failed
  before       \* history: what the previous instance showed when it was replaced

regVars == <<storage, variants, heap, sq, req, now, ops, listCalls, base, reads,
             anyFail, before>>

VARIABLES
  kv,          \* the KV namespace: full key -> stored text and expiration
  clock,       \* the time of the KV namespace, in seconds
  proc,        \* the getOrSet calls: position and locals of each
  kvOps,       \* history: cache operations started so far
  lastSet,     \* history: the last set of a key not followed by a delete
  failedSince  \* history: a compute for the key failed, and no set since

kvVars == <<kv, clock, proc, kvOps, lastSet, failedSince>>

VARIABLES
  handler,     \* POST /api/diagnosis: position, locals and response of the handler
  dx           \* GET /api/diagnosis/:id: its last response; history: the diagnoses
               \* produced. POST /api/drugs/response: position, locals and response

hVars == <<handler, dx>>

VARIABLES
  vreq,        \* the variant routes: position, locals and response of the request
  bx,          \* batchExecute: position and locals of the call and of its tasks
  shared       \* one KV namespace used by several KVCache instances

uVars == <<vreq, bx, shared>>

vars == <<regVars, kvVars, hVars, uVars>>

\* ------------------------------------------------------ registry: helpers
EmptyView == [k \in Keys |-> NoEntry]

IdleReq ==
  [pc |-> "idle", method |-> "NONE", hgvs |-> "none", body |-> NoBody,
   ref |-> 0, result |-> "none", resp |-> NoEntry, failed |-> FALSE,
   snap |-> EmptyView, pre |-> -1]

\* the machine state a handler step works on
Cur ==
  [storage |-> storage, variants |-> variants, heap |-> heap, sq |-> sq,
   req |-> req, listCalls |-> listCalls, base |-> base, reads |-> reads,
   anyFail |-> anyFail, before |-> before]

\* this.variants.size
Size(m) == Cardinality({k \in Keys : m.variants[k] # 0})

\* the entries of the Map, by value
View(m) == [k \in Keys |-> IF m.variants[k] = 0 THEN NoEntry ELSE m.heap[m.variants[k]]]

\* a new object: the least identity nothing refers to
Alloc(h) == CHOOSE o \in ObjIds : h[o] = NoEntry /\ \A p \in ObjIds : p < o => h[p] # NoEntry

\* objects nothing refers to any more are collected
Collect(m) ==
  LET live == {m.variants[k] : k \in Keys} \cup {m.req[r].ref : r \in Reqs}
  IN [m EXCEPT !.heap = [o \in ObjIds |-> IF o \in live THEN m.heap[o] ELSE NoEntry]]

\* JavaScript's a || b on numbers: b when a is falsy (0)
OrElse(a, b) == IF a = 0 THEN b ELSE a

\* a GET of key k is in flight (anywhere between arrival and response)
GetInFlight(m, k, self) ==
  \E r \in Reqs \ {self} : m.req[r].method = "GET" /\ m.req[r].hgvs = k
                           /\ m.req[r].pc \in {"list", "put"}

\* history: key k was stored or deleted (or a write of it failed): counting
\* of reads starts again from the count c the index now shows (-1: untracked)
Epoch(m, k, self, c) ==
  [m EXCEPT !.reads[k] = 0,
            !.base[k] = IF GetInFlight(m, k, self) THEN -1 ELSE c]

\* new Date(ms).toISOString()
ToISOString(t) == [iso |-> t]

\* the summary getStats builds of one entry
Summary(v) ==
  [hgvs |-> v.hgvs, gene |-> v.gene, access_count |-> v.access_count,
   created_at |-> ToISOString(v.created_at), updated_at |-> ToISOString(v.updated_at)]

\* ----------------------------------------------------- registry: handlers
\* a getVariant that answers a miss but leaves a placeholder in the index
getVariant_IndexOnMiss(m, r) ==
  LET hgvs == m.req[r].hgvs
      o == m.variants[hgvs]
  IN IF o = 0
     THEN LET n == Alloc(m.heap)
          IN [m EXCEPT !.heap[n] = [hgvs |-> hgvs, gene |-> "", interpretation |-> "",
                                    sources |-> <<>>, created_at |-> now,
                                    updated_at |-> now, access_count |-> 0],
                       !.variants[hgvs] = n,
                       !.req[r].pc = "done", !.req[r].result = "notfound"]
     ELSE LET variant == [m.heap[o] EXCEPT !.access_count = @ + 1,
                                           !.updated_at = now]
          IN [m EXCEPT !.heap[o] = variant,
                       !.sq = Append(@, [req |-> r, op |-> "put", key |-> hgvs,
                                         value |-> variant]),
                       !.req[r].pc = "put",
                       !.req[r].ref = o,
                       !.req[r].pre = m.heap[o].access_count]

\* getVariant(hgvs), up to its await of storage.put
getVariant_NoBump(m, r) ==
  LET hgvs == m.req[r].hgvs
      o == m.variants[hgvs]
  IN IF o = 0
     THEN [m EXCEPT !.req[r].pc = "done", !.req[r].result = "notfound"]
     ELSE LET variant == [m.heap[o] EXCEPT !.updated_at = now]
          IN [m EXCEPT !.heap[o] = variant,
                       !.sq = Append(@, [req |-> r, op |-> "put", key |-> hgvs,
                                         value |-> variant]),
                       !.req[r].pc = "put",
                       !.req[r].ref = o,
                       !.req[r].pre = m.heap[o].access_count]

getVariant(m, r) ==
  LET hgvs == m.req[r].hgvs
      o == m.variants[hgvs]
  IN IF o = 0
     THEN [m EXCEPT !.req[r].pc = "done", !.req[r].result = "notfound"]
     ELSE LET variant == [m.heap[o] EXCEPT !.access_count = @ + 1,
                                           !.updated_at = now]
          IN [m EXCEPT !.heap[o] = variant,
                       !.sq = Append(@, [req |-> r, op |-> "put", key |-> hgvs,
                                         value |-> variant]),
                       !.req[r].pc = "put",
                       !.req[r].ref = o,
                       !.req[r].pre = m.heap[o].access_count]

\* a storeVariant that stamps created_at anew on every store
storeVariant_NewCreatedAt(m, r) ==
  LET data == m.req[r].body
      existing == View(m)[data.hgvs]
      entry == [hgvs |-> data.hgvs, gene |-> data.gene,
                interpretation |-> data.interpretation, sources |-> data.sources,
                created_at |-> now,
                updated_at |-> now,
                access_count |-> IF existing = NoEntry THEN 0
                                 ELSE OrElse(existing.access_count, 0)]
      o == Alloc(m.heap)
      m1 == [m EXCEPT !.heap[o] = entry,
                      !.variants[data.hgvs] = o,
                      !.sq = Append(@, [req |-> r, op |-> "put", key |-> data.hgvs,
                                        value |-> entry]),
                      !.req[r].pc = "put",
                      !.req[r].ref = o,
                      !.req[r].snap = View(m),
                      !.before = -1]
  IN Epoch(m1, data.hgvs, r, entry.access_count)

\* a storeVariant that lets the body's counters through
storeVariant_FromBody(m, r) ==
  LET data == m.req[r].body
      existing == View(m)[data.hgvs]
      own == "access_count" \in DOMAIN data
      entry == [hgvs |-> data.hgvs, gene |-> data.gene,
                interpretation |-> data.interpretation, sources |-> data.sources,
                created_at |-> IF own THEN data.created_at
                               ELSE IF existing = NoEntry THEN now
                               ELSE OrElse(existing.created_at, now),
                updated_at |-> now,
                access_count |-> IF own THEN data.access_count
                                 ELSE IF existing = NoEntry THEN 0
                                 ELSE OrElse(existing.access_count, 0)]
      o == Alloc(m.heap)
      m1 == [m EXCEPT !.heap[o] = entry,
                      !.variants[data.hgvs] = o,
                      !.sq = Append(@, [req |-> r, op |-> "put", key |-> data.hgvs,
                                        value |-> entry]),
                      !.req[r].pc = "put",
                      !.req[r].ref = o,
                      !.req[r].snap = View(m),
                      !.before = -1]
  IN Epoch(m1, data.hgvs, r, entry.access_count)

\* a storeVariant that files the entry under another key than its hgvs
storeVariant_UnderOtherKey(m, r) ==
  LET data == m.req[r].body
      existing == View(m)[data.hgvs]
      entry == [hgvs |-> data.hgvs, gene |-> data.gene,
                interpretation |-> data.interpretation, sources |-> data.sources,
                created_at |-> IF existing = NoEntry THEN now
                               ELSE OrElse(existing.created_at, now),
                updated_at |-> now,
                access_count |-> IF existing = NoEntry THEN 0
                                 ELSE OrElse(existing.access_count, 0)]
      o == Alloc(m.heap)
      other == CHOOSE k \in Keys : k # data.hgvs
      m1 == [m EXCEPT !.heap[o] = entry,
                      !.variants[other] = o,
                      !.sq = Append(@, [req |-> r, op |-> "put", key |-> other,
                                        value |-> entry]),
                      !.req[r].pc = "put",
                      !.req[r].ref = o,
                      !.req[r].snap = View(m),
                      !.before = -1]
  IN Epoch(m1, data.hgvs, r, entry.access_count)

\* storeVariant(data), up to its await of storage.put
storeVariant(m, r) ==
  LET data == m.req[r].body
      existing == View(m)[data.hgvs]
      entry == [hgvs |-> data.hgvs, gene |-> data.gene,
                interpretation |-> data.interpretation, sources |-> data.sources,
                created_at |-> IF existing = NoEntry THEN now
                               ELSE OrElse(existing.created_at, now),
                updated_at |-> now,
                access_count |-> IF existing = NoEntry THEN 0
                                 ELSE OrElse(existing.access_count, 0)]
      o == Alloc(m.heap)
      m1 == [m EXCEPT !.heap[o] = entry,
                      !.variants[data.hgvs] = o,
                      !.sq = Append(@, [req |-> r, op |-> "put", key |-> data.hgvs,
                                        value |-> entry]),
                      !.req[r].pc = "put",
                      !.req[r].ref = o,
                      !.req[r].snap = View(m),
                      !.before = -1]
  IN Epoch(m1, data.hgvs, r, entry.access_count)

\* a deleteVariant that refuses an hgvs the index does not hold
deleteVariant_Strict(m, r) ==
  LET hgvs == m.req[r].hgvs
      m1 == [m EXCEPT !.variants[hgvs] = 0,
                      !.sq = Append(@, [req |-> r, op |-> "delete", key |-> hgvs,
                                        value |-> NoEntry]),
                      !.req[r].pc = "del",
                      !.before = -1]
  IN IF m.variants[hgvs] = 0
     THEN [m EXCEPT !.req[r].pc = "done", !.req[r].result = "error"]
     ELSE Epoch(m1, hgvs, r, -1)

\* a deleteVariant that removes the record from storage only
deleteVariant_KeepsIndex(m, r) ==
  LET hgvs == m.req[r].hgvs
      m1 == [m EXCEPT !.sq = Append(@, [req |-> r, op |-> "delete", key |-> hgvs,
                                        value |-> NoEntry]),
                      !.req[r].pc = "del",
                      !.before = -1]
  IN Epoch(m1, hgvs, r, -1)

\* deleteVariant(hgvs), up to its await of storage.delete
deleteVariant(m, r) ==
  LET hgvs == m.req[r].hgvs
      m1 == [m EXCEPT !.variants[hgvs] = 0,
                      !.sq = Append(@, [req |-> r, op |-> "delete", key |-> hgvs,
                                        value |-> NoEntry]),
                      !.req[r].pc = "del",
                      !.before = -1]
  IN Epoch(m1, hgvs, r, -1)

\* a getStats that counts the requests it has seen instead of the entries
getStats_CountsCalls(m, r) ==
  LET present == {k \in Keys : m.variants[k] # 0}
      stats == [total_variants |-> m.listCalls,
                variants |-> [k \in present |-> Summary(m.heap[m.variants[k]])]]
  IN [m EXCEPT !.req[r].pc = "done", !.req[r].result = "ok", !.req[r].resp = stats]

\* a getStats that takes updated_at from the persisted record
getStats_PersistedTime(m, r) ==
  LET present == {k \in Keys : m.variants[k] # 0}
      mixed(k) == IF m.storage[k] = NoEntry THEN m.heap[m.variants[k]]
                  ELSE [m.heap[m.variants[k]] EXCEPT !.updated_at = m.storage[k].updated_at]
      stats == [total_variants |-> Size(m),
                variants |-> [k \in present |-> Summary(mixed(k))]]
  IN [m EXCEPT !.req[r].pc = "done", !.req[r].result = "ok", !.req[r].resp = stats]

\* getStats(): no await, the response is built from the Map as it is
getStats(m, r) ==
  LET present == {k \in Keys : m.variants[k] # 0}
      stats == [total_variants |-> Size(m),
                variants |-> [k \in present |-> Summary(m.heap[m.variants[k]])]]
  IN [m EXCEPT !.req[r].pc = "done", !.req[r].result = "ok", !.req[r].resp = stats]

\* the routing part of fetch(), after the hydration block
dispatch(m, r) ==
  LET m0 == [m EXCEPT !.req[r].snap = View(m)]
      method == m.req[r].method
  IN CASE method = "GET" -> getVariant(m0, r)
       [] method = "POST" -> [m0 EXCEPT !.req[r].pc = "json"]
       [] method = "DELETE" -> deleteVariant(m0, r)
       [] method = "STATS" -> getStats(m0, r)
       [] OTHER -> [m0 EXCEPT !.req[r].pc = "done", !.req[r].result = "notfound"]

\* a fetch() whose hydration block loads nothing
hydrate_Nothing(m, stored, i) == m

\* stored.forEach((value, key) => this.variants.set(key, value)), keys i..
RECURSIVE hydrate(_, _, _)
hydrate(m, stored, i) ==
  IF i > Len(KeySeq) THEN m
  ELSE LET key == KeySeq[i]
       IN IF stored[key] = NoEntry THEN hydrate(m, stored, i + 1)
          ELSE LET o == Alloc(m.heap)
               IN hydrate([m EXCEPT !.heap[o] = stored[key], !.variants[key] = o],
                          stored, i + 1)

\* fetch(request), up to its first await
fetch(m, r) ==
  IF Size(m) = 0
  THEN [m EXCEPT !.sq = Append(@, [req |-> r, op |-> "list", key |-> "none",
                                   value |-> NoEntry]),
                 !.req[r].pc = "list",
                 !.listCalls = @ + 1]
  ELSE dispatch(m, r)

\* the step's result becomes the next state
Commit(m0) ==
  LET m == Collect(m0)
  IN /\ storage' = m.storage
     /\ variants' = m.variants
     /\ heap' = m.heap
     /\ sq' = m.sq
     /\ req' = m.req
     /\ listCalls' = m.listCalls
     /\ base' = m.base
     /\ reads' = m.reads
     /\ anyFail' = m.anyFail
     /\ before' = m.before
     /\ UNCHANGED <<kvVars, hVars, uVars>>

\* --------------------------------------------------- registry: the actions
InitReg ==
  /\ storage = EmptyView
  /\ variants = [k \in Keys |-> 0]
  /\ heap = [o \in ObjIds |-> NoEntry]
  /\ sq = <<>>
  /\ req = [r \in Reqs |-> IdleReq]
  /\ now = 1
  /\ ops = 0
  /\ listCalls = 0
  /\ base = [k \in Keys |-> -1]
  /\ reads = [k \in Keys |-> 0]
  /\ anyFail = FALSE
  /\ before = -1

\* a request reaches the instance: fetch() runs to its first await
Admit(r, method, k, body) ==
  /\ req[r].pc \in {"idle", "done"}
  /\ IF method = "POST" THEN body # NoBody /\ body.hgvs = k ELSE body = NoBody
  /\ method \in {"STATS", "OTHER"} => k = KeySeq[1]
  /\ LET m == [Cur EXCEPT !.req[r] = [IdleReq EXCEPT !.method = method, !.hgvs = k,
                                                     !.body = body,
                                                     !.snap = View(Cur)]]
     IN Commit(fetch(m, r))
  /\ ops' = ops + 1
  /\ now' = now

Arrive(r, method, k, body) == ops < MaxOps /\ Admit(r, method, k, body)

\* the head of the storage queue is the operation op of request r
HeadIs(r, op) == sq # <<>> /\ Head(sq).req = r /\ Head(sq).op = op

\* the request ends with the exception its storage call raised
Throw(m, r) ==
  [m EXCEPT !.sq = Tail(@), !.req[r].pc = "done", !.req[r].result = "error",
            !.req[r].failed = TRUE, !.anyFail = TRUE]

\* storage.list resolves: the index is loaded, then the request is routed
ListDone(r) ==
  /\ HeadIs(r, "list")
  /\ LET m == [Cur EXCEPT !.sq = Tail(@)]
     IN Commit(dispatch(hydrate(m, storage, 1), r))
  /\ UNCHANGED <<now, ops>>

\* storage.list rejects
ListFail(r) ==
  /\ HeadIs(r, "list")
  /\ Commit(Throw(Cur, r))
  /\ UNCHANGED <<now, ops>>

\* request.json() resolves: storeVariant runs to its storage.put
JsonDone(r) ==
  /\ req[r].pc = "json"
  /\ Commit(storeVariant(Cur, r))
  /\ UNCHANGED <<now, ops>>

\* what a handler does when its storage.put has resolved
PutResolved(m, r) ==
  LET op == Head(m.sq)
      k == op.key
      v == m.heap[m.req[r].ref]
      m1 == [m EXCEPT !.storage[k] = op.value, !.sq = Tail(@),
                      !.req[r].pc = "done", !.req[r].result = "ok", !.req[r].resp = v]
  IN IF m.req[r].method = "GET"
     THEN [m1 EXCEPT !.reads[k] = IF m.base[k] = -1 THEN @ ELSE @ + 1]
     ELSE Epoch(m1, k, r, IF m1.variants[k] = 0 THEN -1 ELSE View(m1)[k].access_count)

\* what a handler does when its storage.put or storage.delete has rejected
WriteRejected_Swallow(m, r) ==
  LET k == Head(m.sq).key
  IN [m EXCEPT !.sq = Tail(@), !.req[r].pc = "done", !.req[r].result = "ok",
               !.req[r].failed = TRUE, !.anyFail = TRUE, !.base[k] = -1]

WriteRejected(m, r) ==
  LET k == Head(m.sq).key
  IN [Throw(m, r) EXCEPT !.base[k] = -1]

\* storage.put resolves: the record is persisted and the response is built
PutDone(r) ==
  /\ HeadIs(r, "put")
  /\ Commit(PutResolved(Cur, r))
  /\ UNCHANGED <<now, ops>>

PutFail(r) ==
  /\ HeadIs(r, "put")
  /\ Commit(WriteRejected(Cur, r))
  /\ UNCHANGED <<now, ops>>

\* storage.delete resolves
DeleteDone(r) ==
  /\ HeadIs(r, "delete")
  /\ LET k == Head(sq).key
         m == [Cur EXCEPT !.storage[k] = NoEntry, !.sq = Tail(@),
                          !.req[r].pc = "done", !.req[r].result = "ok"]
     IN Commit([m EXCEPT !.base[k] = -1, !.reads[k] = -1])
  /\ UNCHANGED <<now, ops>>

DeleteFail(r) ==
  /\ HeadIs(r, "delete")
  /\ Commit(WriteRejected(Cur, r))
  /\ UNCHANGED <<now, ops>>

\* time passes
Tick ==
  /\ now < MaxTime
  /\ now' = now + 1
  /\ UNCHANGED <<storage, variants, heap, sq, req, ops, listCalls, base, reads,
                 anyFail, before>>
  /\ UNCHANGED <<kvVars, hVars, uVars>>

Quiescent == \A r \in Reqs : req[r].pc \in {"idle", "done"}

\* the instance is evicted while idle; the next request meets a fresh instance
\* (constructor: an empty Map) over the same storage
Restart ==
  /\ Quiescent
  /\ sq = <<>>
  /\ Size(Cur) + listCalls > 0
  /\ variants' = [k \in Keys |-> 0]
  /\ heap' = [o \in ObjIds |-> NoEntry]
  /\ listCalls' = 0
  /\ before' = IF anyFail THEN -1 ELSE Size(Cur)
  /\ anyFail' = FALSE
  /\ req' = [r \in Reqs |-> IdleReq]
  /\ UNCHANGED <<storage, sq, now, ops, base, reads>>
  /\ UNCHANGED <<kvVars, hVars, uVars>>

Complete(r) ==
  \/ ListDone(r)
  \/ ListFail(r)
  \/ JsonDone(r)
  \/ PutDone(r)
  \/ PutFail(r)
  \/ DeleteDone(r)
  \/ DeleteFail(r)

\* concurrent requests on one instance
NextReg ==
  \/ \E r \in Reqs, method \in Methods, k \in Keys, body \in Bodies \cup {NoBody} :
       Arrive(r, method, k, body)
  \/ \E r \in Reqs : Complete(r)
  \/ Tick
  \/ Restart

\* one request at a time: a request arrives when the previous one has ended
ArriveSeq(method, k, body) == Quiescent /\ Arrive(1, method, k, body)

NextRegSeq ==
  \/ \E method \in Methods, k \in Keys, body \in Bodies \cup {NoBody} :
       ArriveSeq(method, k, body)
  \/ \E r \in Reqs : Complete(r)
  \/ Tick
  \/ Restart

\* one request at a time on one hgvs, over a longer run; the requests take
\* the slots in turn, so that the last MaxReq of them stay on record
ArriveLife(method, body) ==
  /\ Quiescent
  /\ ops < MaxLifeOps
  /\ Admit((ops % MaxReq) + 1, method, KeySeq[1], body)

NextRegLife ==
  \/ \E method \in {"GET", "POST", "DELETE"},
        body \in {b \in Bodies : "access_count" \in DOMAIN b} \cup {NoBody} :
       ArriveLife(method, body)
  \/ \E r \in Reqs : Complete(r)
  \/ Tick
  \/ Restart

\* ------------------------------------------------------ KVCache: values
Namespaces == {"variants"}
CacheKeys == {"variant:h1", "variant:h2"}
Procs == 1..MaxProc

\* JSON values a caller caches; JsNull is JavaScript's null
JsNull == "null"
Values == {"objA", "objB", JsNull}

\* the failures a compute function raises
Errors == {"UpstreamError", "NotFound"}

\* options.ttl in seconds: -1 stands for an absent ttl (undefined)
NoTtl == -1
TtlOpts == {NoTtl, 0, 1}

\* KVCache.getKey
getKey(ns, key) == ns \o ":" \o key

\* patient.phenotype: the phenotype lists of the requests
PhenotypeLists == {<<"fever", "rash">>, <<"rash", "fever">>}

\* Array.prototype.join(",")
RECURSIVE Join(_)
Join(list) ==
  IF list = <<>> THEN ""
  ELSE IF Len(list) = 1 THEN list[1]
  ELSE list[1] \o "," \o Join(Tail(list))

\* `phenotype:${patient.phenotype.join(",")}`
PhenotypeCacheKey(phenotype) == "phenotype:" \o Join(phenotype)

PhenotypeKeys == {PhenotypeCacheKey(phenotype) : phenotype \in PhenotypeLists}

\* `dx_${Date.now()}_${Math.random().toString(36).substring(7)}`: the time and
\* the random suffix are the environment's; the suffix is what is left of the
\* base-36 text after its first seven characters, which can be nothing
DiagnosisIds == {"dx_1700000000000_k3f9", "dx_1700000000000_"}

\* `diagnosis:${diagnosisId}`
DiagnosisCacheKey(id) == "diagnosis:" \o id

DiagnosisKeys == {DiagnosisCacheKey(id) : id \in DiagnosisIds}

\* body.genes: the gene lists of the requests, without repeated genes
GeneLists == {<<"BRCA1", "TP53">>, <<"TP53", "BRCA1">>, <<"TP53">>}

\* the gene names in the order of Array.prototype.sort() (by code unit)
GeneOrder == <<"BRCA1", "TP53">>

\* genes.sort()
SortGenes(genes) ==
  SelectSeq(GeneOrder, LAMBDA g : \E i \in DOMAIN genes : genes[i] = g)

\* `drug_response:${genes.sort().join(",")}`
DrugResponseCacheKey(genes) == "drug_response:" \o Join(SortGenes(genes))

\* body.variants of POST /api/drugs/response
VariantLists == {<<"h1">>, <<"h2">>}

\* a key that depends on body.variants as well
DrugCacheKey_WithVariants(genes, variantList) ==
  DrugResponseCacheKey(genes) \o "|" \o Join(variantList)

\* the cacheKey of POST /api/drugs/response for a body with these genes
\* and this list of variants
DrugCacheKey(genes, variantList) == DrugResponseCacheKey(genes)

DrugKeys ==
  {DrugResponseCacheKey(genes) : genes \in GeneLists}
  \cup {DrugCacheKey_WithVariants(genes, variantList) :
          genes \in GeneLists, variantList \in VariantLists}

FullKeys ==
  {getKey(ns, key) : ns \in Namespaces,
                     key \in CacheKeys \cup PhenotypeKeys \cup DiagnosisKeys}
  \cup {getKey("genes", key) : key \in DrugKeys}

NoKV == [absent |-> TRUE]
NoSet == [absent |-> TRUE]

\* JSON.stringify
JSONStringify(v) ==
  CASE v = JsNull -> "null"
    [] v = "objA" -> "{\"id\":\"A\"}"
    [] v = "objB" -> "{\"id\":\"B\"}"

\* a stored text that is not JSON, and what parsing it comes to
MalformedTexts == {"{oops"}
SyntaxError == "SyntaxError"

\* JSON.parse: the value of a text JSON.stringify produced, a SyntaxError
\* for a text that is not JSON
JSONParse(text) ==
  IF \E v \in Values : JSONStringify(v) = text
  THEN CHOOSE v \in Values : JSONStringify(v) = text
  ELSE SyntaxError

\* JavaScript truthiness of options.ttl: undefined and 0 are falsy
Truthy(n) == n # NoTtl /\ n # 0

\* KVNamespace.put(fullKey, text, {expirationTtl}) at time t
KvPut(store, fullKey, text, kvOptions, t) ==
  [store EXCEPT ![fullKey] =
     [text |-> text,
      exp |-> IF kvOptions.expirationTtl = NoTtl THEN NoTtl
              ELSE t + kvOptions.expirationTtl]]

\* KVNamespace.get(fullKey, "json") at time t: null when absent or expired;
\* SyntaxError stands for the call rejecting because the text does not parse
KvGetJson(store, fullKey, t) ==
  IF store[fullKey] = NoKV THEN JsNull
  ELSE IF store[fullKey].exp # NoTtl /\ t >= store[fullKey].exp THEN JsNull
  ELSE JSONParse(store[fullKey].text)

\* KVCache.get
get(ns, key) == KvGetJson(kv, getKey(ns, key), clock)

\* KVCache.has
has(ns, key) == get(ns, key) # JsNull

set_KeepsFirst(store, ns, key, value, ttl) ==
  IF store[getKey(ns, key)] = NoKV
  THEN KvPut(store, getKey(ns, key), JSONStringify(value),
             [expirationTtl |-> IF Truthy(ttl) THEN ttl ELSE NoTtl], clock)
  ELSE store

set_KeepsExpiry(store, ns, key, value, ttl) ==
  LET fk == getKey(ns, key)
      kept == IF store[fk] = NoKV THEN NoTtl ELSE store[fk].exp
  IN [store EXCEPT ![fk] = [text |-> JSONStringify(value),
                            exp |-> IF Truthy(ttl) THEN clock + ttl ELSE kept]]

\* KVCache.set: the store after set(key, value, {ttl})
set(store, ns, key, value, ttl) ==
  LET kvOptions == [expirationTtl |-> IF Truthy(ttl) THEN ttl ELSE NoTtl]
  IN KvPut(store, getKey(ns, key), JSONStringify(value), kvOptions, clock)

IdleProc ==
  [pc |-> "idle", ns |-> "none", key |-> "none", ttl |-> NoTtl, value |-> JsNull,
   result |-> [none |-> TRUE], fnCalls |-> 0, puts |-> 0, thrown |-> "none",
   batch |-> 0, since |-> "none", live |-> "none", afterFail |-> FALSE,
   malformed |-> FALSE]

\* history: the time at which a set made now with this ttl is to expire
Until(ttl) == IF ttl = NoTtl THEN NoTtl ELSE clock + ttl

\* history: the value of the last set of the key when that set is one of a
\* getOrSet and, by the ttl it was given, has not expired; a call notes it when
\* it starts (since) and keeps it (live) if its get still finds it so
LiveGetOrSet(fullKey) ==
  IF lastSet[fullKey] # NoSet /\ lastSet[fullKey].by = "getOrSet"
     /\ (lastSet[fullKey].until = NoTtl \/ clock < lastSet[fullKey].until)
  THEN lastSet[fullKey].value ELSE "none"

\* CACHE_TTL.VARIANT and CACHE_TTL.GENE, in seconds
CACHE_TTL_VARIANT == 86400
CACHE_TTL_GENE == 2592000

\* CACHE_TTL.DIAGNOSIS and CACHE_TTL.DRUG, in seconds
CACHE_TTL_DIAGNOSIS == 3600
CACHE_TTL_DRUG == 2592000

\* the handler of POST /api/diagnosis before a request: status 0 stands for no
\* response; items is the variantInterpretations the response is built from;
\* pending (history) is the set of sub-queries not settled at the response
NoItems == [p \in Procs |-> "none"]

IdleHandler ==
  [pc |-> "idle", phenotype |-> <<>>, keyOf |-> [p \in Procs |-> "none"],
   candidateGenes |-> "none",
   phenotypeHit |-> FALSE, status |-> 0, items |-> NoItems, sources |-> {},
   pending |-> {}, hits |-> {}, failed |-> {}]

\* GET /api/diagnosis/:id before a request; produced (history) holds every
\* diagnosis a POST has answered with: its id, the result and the time
NoLookup == [status |-> 0]

\* POST /api/drugs/response before a request; answered (history) holds, for
\* every 200 response, the genes asked for, the body and the time up to which
\* the entry it came from or went to is kept
IdleDrug ==
  [pc |-> "idle", genes |-> <<>>, variants |-> <<>>, status |-> 0,
   body |-> JsNull, answered |-> {}]

InitDiag ==
  /\ handler = IdleHandler
  /\ dx = [lookup |-> NoLookup, produced |-> {}, drug |-> IdleDrug]

\* ------------------------------------------------- variant routes: values
\* what the fetch of MyVariant.info comes to: a 200 answer with the record, a
\* 404 answer, another non-2xx answer, or a rejected fetch
UpstreamOutcomes == {"ok", "404", "5xx", "network"}

\* the annotation MyVariant.info holds for a variant, and the result the
\* routes build from it: objA for h1, objB for the other variants
VariantData(hgvs) == IF hgvs = "h1" THEN "objA" ELSE "objB"

\* BioThingsClient.getVariant: null on a 404 answer and, through its catch
\* block, on every other failure
BioThingsGetVariant(hgvs, outcome) ==
  IF outcome = "ok" THEN VariantData(hgvs)
  ELSE IF outcome = "404" THEN JsNull
  ELSE JsNull

VariantCacheKey_Shared(hgvs) == "variant:h1"

\* `variant:${hgvs}`
VariantCacheKey(hgvs) == "variant:" \o hgvs

NoResult == [none |-> TRUE]

\* one element of variantList.map(...), or the getOrSet of GET /:hgvs;
\* upstream (history) is what the fetch came to
IdleItem ==
  [pc |-> "idle", hgvs |-> "none", upstream |-> "none", value |-> JsNull,
   result |-> NoResult, thrown |-> "none"]

\* the request GET /api/variants/registry/stats sends to the registry: the
\* shard is idFromName("global-stats"), the request new Request("https://dummy/stats")
StatsRequest_ReadsVariant ==
  [shard |-> "global-stats", method |-> "GET", path |-> "/variant/h1"]

StatsRequest == [shard |-> "global-stats", method |-> "GET", path |-> "/stats"]

\* the route fetch() takes for a request, by its method and path
RegistryRoute(request) ==
  CASE request.method = "GET" /\ request.path \in {"/variant/" \o k : k \in Keys} -> "GET"
    [] request.method = "POST" /\ request.path = "/variant" -> "POST"
    [] request.method = "DELETE" /\ request.path \in {"/variant/" \o k : k \in Keys}
         -> "DELETE"
    [] request.method = "GET" /\ request.path = "/stats" -> "STATS"
    [] OTHER -> "OTHER"

\* decodeURIComponent(path.split("/variant/")[1]) for the variant routes
RegistryHgvs(request) ==
  IF \E k \in Keys : request.path = "/variant/" \o k
  THEN CHOOSE k \in Keys : request.path = "/variant/" \o k
  ELSE KeySeq[1]

\* notFound (history): upstream answered 404 for the variant and the key has
\* not been set since; sent (history): the requests sent to the registry; seq
\* (history): the registry requests issued before the one of this handler;
\* stats: the body of the registry's answer
IdleVreq ==
  [route |-> "none", pc |-> "idle", status |-> 0, thrown |-> "none", item |-> [p \in Procs |-> IdleItem],
   notFound |-> [h \in Keys |-> FALSE], sent |-> {}, seq |-> 0, stats |-> NoEntry]

InitVariants == vreq = IdleVreq

InitKV ==
  /\ kv = [fk \in FullKeys |-> NoKV]
  /\ clock = 0
  /\ proc = [p \in Procs |-> IdleProc]
  /\ kvOps = 0
  /\ lastSet = [fk \in FullKeys |-> NoSet]
  /\ failedSince = [fk \in FullKeys |-> FALSE]

\* ------------------------------------------------- batchExecute: values
Tasks == 1..MaxTasks

\* the defaults of BatchOptions
DefaultConcurrency == 5
DefaultRetries == 3
DefaultRetryDelay == 1000

\* options.concurrency and options.retries as callers give them
ConcurrencyOpts == {DefaultConcurrency, 1, 2}
RetriesOpts == {DefaultRetries, 0}

\* one task and its executeWithRetry: retries and delay are the arguments of
\* the current executeWithRetry call; calls (history) counts the invocations
\* of fn, waits (history) lists the delays waited so far; thrown is the error
\* executeWithRetry throws, named by the invocation that raised it, 0 for none
IdleTask ==
  [st |-> "idle", retries |-> 0, delay |-> 0, calls |-> 0, waits |-> <<>>,
   thrown |-> 0]

\* batchExecute before a call; i is the loop index (from 1), executing the
\* tasks whose promises are in the executing array, returned (history) the
\* tasks whose results are in the array when it is returned
IdleBx ==
  [pc |-> "idle", n |-> 0, concurrency |-> 0, retries |-> 0, retryDelay |-> 0,
   i |-> 1, executing |-> <<>>, task |-> [t \in Tasks |-> IdleTask],
   outcome |-> "none", returned |-> {}]

InitBatch == bx = IdleBx

\* the namespaces of the KVCache instances over one KV namespace, and the
\* keys their callers use
InstanceNamespaces == {"variants", "genes", "variants:variant"}
RawKeys == {"h1", "variant:h1"}

SharedFullKeys == {getKey(ns, key) : ns \in InstanceNamespaces, key \in RawKeys}

\* last (history): the instance and key of the last set or delete
InitShared ==
  shared = [store |-> [fk \in SharedFullKeys |-> NoKV],
            last |-> [ns |-> "none", key |-> "none"]]

Init == InitReg /\ InitKV /\ InitDiag /\ InitVariants /\ InitBatch /\ InitShared

\* concurrent requests on one registry instance
SpecReg == Init /\ [][NextReg]_vars

\* one registry request at a time
SpecRegSeq == Init /\ [][NextRegSeq]_vars

\* one registry request at a time on a single hgvs
SpecRegLife == Init /\ [][NextRegLife]_vars

\* ------------------------------------------------------ KVCache: actions
Free(p) == proc[p].pc \in {"idle", "done"}

\* getOrSet(key, fn, {ttl}) is called: it awaits this.get(key)
GetOrSetCall(p, ns, key, ttl) ==
  /\ Free(p)
  /\ \A q \in Procs : q < p => ~Free(q)
  /\ kvOps < MaxKvOps
  /\ proc' = [proc EXCEPT ![p] = [IdleProc EXCEPT !.pc = "get", !.ns = ns,
                                                  !.key = key, !.ttl = ttl,
                                                  !.since = LiveGetOrSet(getKey(ns, key))]]
  /\ kvOps' = kvOps + 1
  /\ UNCHANGED <<kv, clock, lastSet, failedSince>>
  /\ UNCHANGED <<regVars, hVars, uVars>>

\* a handler fans out: Promise.all(items.map(item => cache.getOrSet(key(item), ...)))
\* starts one getOrSet per item, all before any of them resumes
FanOut(ns, keyOf, ttl) ==
  /\ \A p \in Procs : Free(p)
  /\ kvOps < MaxKvOps
  /\ proc' = [p \in Procs |-> [IdleProc EXCEPT !.pc = "get", !.ns = ns,
                                               !.key = keyOf[p], !.ttl = ttl,
                                               !.batch = 1,
                                               !.since = LiveGetOrSet(getKey(ns, keyOf[p]))]]
  /\ kvOps' = kvOps + 1
  /\ UNCHANGED <<kv, clock, lastSet, failedSince>>
  /\ UNCHANGED <<regVars, hVars, uVars>>

\* getOrSet after `await this.get(key)`: return the hit, or call fn; get has
\* no try/catch, so a rejected kv.get rejects get and getOrSet; malformed
\* (history): the payload the get found does not parse
AfterGet(p) ==
  LET cached == get(proc[p].ns, proc[p].key)
      fk == getKey(proc[p].ns, proc[p].key)
      seen == [proc[p] EXCEPT !.live = IF @ = "none" /\ LiveGetOrSet(fk) = proc[p].since
                                       THEN proc[p].since ELSE "none",
                              !.since = "none",
                              !.afterFail = failedSince[fk]]
  IN IF cached = SyntaxError
     THEN [seen EXCEPT !.pc = "done", !.thrown = SyntaxError,
                       !.result = [error |-> SyntaxError], !.ttl = NoTtl,
                       !.malformed = TRUE]
     ELSE IF cached # JsNull
     THEN [seen EXCEPT !.pc = "done", !.result = [value |-> cached], !.ttl = NoTtl]
     ELSE [seen EXCEPT !.pc = "fn", !.fnCalls = @ + 1]

GetReturn(p) ==
  /\ proc[p].pc = "get"
  /\ proc' = [proc EXCEPT ![p] = AfterGet(p)]
  /\ UNCHANGED <<kv, clock, kvOps, lastSet, failedSince>>
  /\ UNCHANGED <<regVars, hVars, uVars>>

\* fn() resolves with v: getOrSet awaits this.set(key, value, options)
FnReturn(p, v) ==
  /\ proc[p].pc = "fn"
  /\ proc' = [proc EXCEPT ![p].pc = "set", ![p].value = v, ![p].puts = @ + 1]
  /\ UNCHANGED <<kv, clock, kvOps, lastSet, failedSince>>
  /\ UNCHANGED <<regVars, hVars, uVars>>

\* getOrSet when fn() rejects with e: [the proc, the store] afterwards
AfterThrow_CacheNull(p, e) ==
  <<[proc[p] EXCEPT !.pc = "done", !.thrown = e, !.result = [value |-> JsNull],
                    !.ttl = NoTtl],
    set(kv, proc[p].ns, proc[p].key, JsNull, proc[p].ttl)>>

AfterThrow(p, e) ==
  <<[proc[p] EXCEPT !.pc = "done", !.thrown = e, !.result = [error |-> e],
                    !.ttl = NoTtl], kv>>

FnThrow(p, e) ==
  /\ proc[p].pc = "fn"
  /\ LET fk == getKey(proc[p].ns, proc[p].key)
     IN /\ proc' = [proc EXCEPT ![p] = AfterThrow(p, e)[1]]
        /\ kv' = AfterThrow(p, e)[2]
        /\ failedSince' = [failedSince EXCEPT ![fk] = (get(proc[p].ns, proc[p].key) = JsNull)]
  /\ UNCHANGED <<clock, kvOps, lastSet>>
  /\ UNCHANGED <<regVars, hVars, uVars>>

\* this.set resolves: the value is in the store and getOrSet returns it
SetReturn(p) ==
  /\ proc[p].pc = "set"
  /\ LET fk == getKey(proc[p].ns, proc[p].key)
     IN /\ kv' = set(kv, proc[p].ns, proc[p].key, proc[p].value, proc[p].ttl)
        /\ lastSet' = [lastSet EXCEPT ![fk] = [by |-> "getOrSet", value |-> proc[p].value,
                                               until |-> Until(proc[p].ttl)]]
        /\ failedSince' = [failedSince EXCEPT ![fk] = FALSE]
  /\ proc' = [proc EXCEPT ![p].pc = "done", ![p].result = [value |-> proc[p].value],
                           ![p].ttl = NoTtl, ![p].value = JsNull]
  /\ UNCHANGED <<clock, kvOps>>
  /\ UNCHANGED <<regVars, hVars, uVars>>

\* a handler calls KVCache.set(key, value, {ttl})
Set(ns, key, value, ttl) ==
  /\ kvOps < MaxKvOps
  /\ kv' = set(kv, ns, key, value, ttl)
  /\ lastSet' = [lastSet EXCEPT ![getKey(ns, key)] =
                   [by |-> "set", value |-> value, until |-> Until(ttl)]]
  /\ failedSince' = [failedSince EXCEPT ![getKey(ns, key)] = FALSE]
  /\ kvOps' = kvOps + 1
  /\ UNCHANGED <<clock, proc>>
  /\ UNCHANGED <<regVars, hVars, uVars>>

\* a handler calls KVCache.delete(key)
Delete(ns, key) ==
  /\ kvOps < MaxKvOps
  /\ kv' = [kv EXCEPT ![getKey(ns, key)] = NoKV]
  /\ lastSet' = [lastSet EXCEPT ![getKey(ns, key)] = NoSet]
  /\ kvOps' = kvOps + 1
  /\ UNCHANGED <<clock, proc, failedSince>>
  /\ UNCHANGED <<regVars, hVars, uVars>>

\* a second passes
KvTick ==
  /\ clock < MaxClock
  /\ clock' = clock + 1
  /\ UNCHANGED <<kv, proc, kvOps, lastSet, failedSince>>
  /\ UNCHANGED <<regVars, hVars, uVars>>

NextKV ==
  \/ \E p \in Procs, ns \in Namespaces, key \in CacheKeys, ttl \in TtlOpts :
       GetOrSetCall(p, ns, key, ttl)
  \/ \E p \in Procs : GetReturn(p)
  \/ \E p \in Procs, v \in Values : FnReturn(p, v)
  \/ \E p \in Procs, e \in Errors : FnThrow(p, e)
  \/ \E p \in Procs : SetReturn(p)
  \/ \E ns \in Namespaces, key \in CacheKeys, v \in Values, ttl \in TtlOpts :
       Set(ns, key, v, ttl)
  \/ \E ns \in Namespaces, key \in CacheKeys : Delete(ns, key)
  \/ KvTick

\* the cache under single calls of its operations
SpecKV == Init /\ [][NextKV]_vars

NextFan ==
  \/ \E ns \in Namespaces, keyOf \in [Procs -> CacheKeys], ttl \in TtlOpts :
       FanOut(ns, keyOf, ttl)
  \/ \E p \in Procs : GetReturn(p)
  \/ \E p \in Procs, v \in Values : FnReturn(p, v)
  \/ \E p \in Procs, e \in Errors : FnThrow(p, e)
  \/ \E p \in Procs : SetReturn(p)

\* the cache under the fan-out of one handler
SpecFan == Init /\ [][NextFan]_vars

\* a writer other than KVCache puts a text under a key of the KV namespace
RawPut(fullKey, text) ==
  /\ kvOps < MaxKvOps
  /\ kv' = [kv EXCEPT ![fullKey] = [text |-> text, exp |-> NoTtl]]
  /\ lastSet' = [lastSet EXCEPT ![fullKey] =
                   [by |-> "raw", value |-> JsNull, until |-> NoTtl]]
  /\ kvOps' = kvOps + 1
  /\ UNCHANGED <<clock, proc, failedSince>>
  /\ UNCHANGED <<regVars, hVars, uVars>>

NextRaw ==
  \/ \E fullKey \in FullKeys, text \in MalformedTexts : RawPut(fullKey, text)
  \/ \E p \in Procs, ns \in Namespaces, key \in CacheKeys, ttl \in TtlOpts :
       GetOrSetCall(p, ns, key, ttl)
  \/ \E p \in Procs : GetReturn(p)
  \/ \E p \in Procs, v \in Values : FnReturn(p, v)
  \/ \E p \in Procs, e \in Errors : FnThrow(p, e)
  \/ \E p \in Procs : SetReturn(p)

\* the cache over a store that other writers write too
SpecRaw == Init /\ [][NextRaw]_vars

\* ------------------------------------------- KVCache: instances, one store
\* KVCache.get through the instance of namespace ns
InstanceGet(store, ns, key) == KvGetJson(store, getKey(ns, key), clock)

\* set(key, value) through the instance of namespace ns
InstanceSet(ns, key, value) ==
  /\ shared' = [store |-> set(shared.store, ns, key, value, NoTtl),
                last |-> [ns |-> ns, key |-> key]]
  /\ UNCHANGED <<vreq, bx>>
  /\ UNCHANGED <<regVars, kvVars, hVars>>

\* delete(key) through the instance of namespace ns
InstanceDelete(ns, key) ==
  /\ shared' = [store |-> [shared.store EXCEPT ![getKey(ns, key)] = NoKV],
                last |-> [ns |-> ns, key |-> key]]
  /\ UNCHANGED <<vreq, bx>>
  /\ UNCHANGED <<regVars, kvVars, hVars>>

NextShared ==
  \/ \E ns \in InstanceNamespaces, key \in RawKeys, value \in Values \ {JsNull} :
       InstanceSet(ns, key, value)
  \/ \E ns \in InstanceNamespaces, key \in RawKeys : InstanceDelete(ns, key)

\* several KVCache instances over one KV namespace
SpecShared == Init /\ [][NextShared]_vars

\* ------------------------------------------------ batchExecute: actions
InFlight(b) == {t \in Tasks : b.task[t].st \in {"running", "waiting"}}
TaskSettled(b, t) == b.task[t].st \in {"fulfilled", "rejected"}
InExecuting(b, t) == \E k \in DOMAIN b.executing : b.executing[k] = t

\* executing.splice(executing.findIndex(p => p === promise), 1), promise being
\* the one of the current iteration
SpliceCurrent(b) ==
  LET k == CHOOSE j \in DOMAIN b.executing : b.executing[j] = b.i
  IN [j \in 1..(Len(b.executing) - 1) |->
        IF j < k THEN b.executing[j] ELSE b.executing[j + 1]]

\* after `await Promise.race(executing)` has resolved: the splice, and the
\* next iteration
AfterRace(b) ==
  [b EXCEPT !.pc = "loop", !.executing = SpliceCurrent(b), !.i = @ + 1]

\* the function rejects: the tasks keep running
BatchThrow(b) == [b EXCEPT !.pc = "done", !.outcome = "rejected"]

\* `await Promise.all(executing); return results`
AwaitAll(b) ==
  IF \E t \in Tasks : InExecuting(b, t) /\ b.task[t].st = "rejected"
  THEN BatchThrow(b)
  ELSE IF \A t \in Tasks : InExecuting(b, t) => b.task[t].st = "fulfilled"
  THEN [b EXCEPT !.pc = "done", !.outcome = "resolved",
                 !.returned = {t \in Tasks : b.task[t].st = "fulfilled"}]
  ELSE [b EXCEPT !.pc = "all"]

\* the loop from iteration b.i up to its next await that has to wait: each
\* iteration calls executeWithRetry, which invokes the task, and pushes its
\* promise; a race over an array that holds a settled promise resolves
\* without any task making progress
RECURSIVE Loop(_)
Loop(b) ==
  IF b.i > b.n THEN AwaitAll(b)
  ELSE LET started == [b EXCEPT !.task[b.i] = [st |-> "running", retries |-> b.retries,
                                               delay |-> b.retryDelay, calls |-> 1,
                                               waits |-> <<>>, thrown |-> 0],
                                !.executing = Append(@, b.i)]
       IN IF Len(started.executing) >= b.concurrency
          THEN IF \E t \in Tasks : InExecuting(started, t) /\ TaskSettled(started, t)
               THEN Loop(AfterRace(started))
               ELSE [started EXCEPT !.pc = "race"]
          ELSE Loop([started EXCEPT !.i = @ + 1])

\* batchExecute(tasks, {concurrency, retries}) is called with n tasks
BatchExecute(n, concurrency, retries) ==
  /\ bx.pc = "idle"
  /\ bx' = Loop([IdleBx EXCEPT !.pc = "loop", !.n = n, !.concurrency = concurrency,
                               !.retries = retries, !.retryDelay = DefaultRetryDelay])
  /\ UNCHANGED <<vreq, shared>>
  /\ UNCHANGED <<regVars, kvVars, hVars>>

\* batchExecute when the promise of task t has settled: the race or the all
\* it is awaiting, if the promise is in the array, settles with it
Resume(b, t) ==
  IF b.pc = "race" /\ InExecuting(b, t)
  THEN IF b.task[t].st = "rejected" THEN BatchThrow(b) ELSE Loop(AfterRace(b))
  ELSE IF b.pc = "all" /\ InExecuting(b, t) THEN AwaitAll(b)
  ELSE b

\* executeWithRetry: fn() resolves
TaskResolves(t) ==
  /\ bx.task[t].st = "running"
  /\ bx' = Resume([bx EXCEPT !.task[t].st = "fulfilled"], t)
  /\ UNCHANGED <<vreq, shared>>
  /\ UNCHANGED <<regVars, kvVars, hVars>>

\* executeWithRetry: fn() rejects; with retries left it waits for delay,
\* otherwise it throws the error
executeWithRetry_OneFewer(b, t) ==
  IF b.task[t].retries <= 1
  THEN Resume([b EXCEPT !.task[t].st = "rejected",
                        !.task[t].thrown = b.task[t].calls], t)
  ELSE [b EXCEPT !.task[t].st = "waiting",
                 !.task[t].waits = Append(@, b.task[t].delay)]

executeWithRetry(b, t) ==
  IF b.task[t].retries = 0
  THEN Resume([b EXCEPT !.task[t].st = "rejected",
                        !.task[t].thrown = b.task[t].calls], t)
  ELSE [b EXCEPT !.task[t].st = "waiting",
                 !.task[t].waits = Append(@, b.task[t].delay)]

TaskRejects(t) ==
  /\ bx.task[t].st = "running"
  /\ bx' = executeWithRetry(bx, t)
  /\ UNCHANGED <<vreq, shared>>
  /\ UNCHANGED <<regVars, kvVars, hVars>>

\* the timer fires: executeWithRetry(fn, retries - 1, delay * 2) invokes fn
\* again
RetryTimer(t) ==
  /\ bx.task[t].st = "waiting"
  /\ bx' = [bx EXCEPT !.task[t] = [@ EXCEPT !.st = "running", !.retries = @ - 1,
                                            !.delay = @ * 2, !.calls = @ + 1]]
  /\ UNCHANGED <<vreq, shared>>
  /\ UNCHANGED <<regVars, kvVars, hVars>>

NextBatch ==
  \/ \E n \in Tasks, concurrency \in ConcurrencyOpts, retries \in RetriesOpts :
       BatchExecute(n, concurrency, retries)
  \/ \E t \in Tasks : TaskResolves(t)
  \/ \E t \in Tasks : TaskRejects(t)
  \/ \E t \in Tasks : RetryTimer(t)

\* one call of batchExecute
SpecBatch == Init /\ [][NextBatch]_vars

\* one call of batchExecute in which every invocation of a task settles and
\* every timer set by setTimeout fires
SpecBatchSettling ==
  /\ SpecBatch
  /\ \A t \in Tasks : /\ WF_vars(TaskResolves(t) \/ TaskRejects(t))
                       /\ WF_vars(RetryTimer(t))

\* ------------------------------------------- POST /api/diagnosis: handler
\* JavaScript truthiness of a cached value: null is falsy, an object truthy
TruthyValue(v) == v # JsNull

Settled(p) == proc[p].pc = "done"
Rejected(p) == Settled(p) /\ proc[p].thrown # "none"
Fulfilled(p) == Settled(p) /\ proc[p].thrown = "none"

\* an element of the sources array; item (history) is the variant it is pushed
\* for, 0 when it is pushed for a lookup that is not one of a batch; the
\* timestamp is left out
SourceRecord(source, queryType, cacheHit, item) ==
  [source |-> source, query_type |-> queryType, cache_hit |-> cacheHit,
   item |-> item]

\* the result object of a diagnosis, built from what the lookups for the
\* request's phenotype and variants gave
DiagnosisResult(phenotype) ==
  IF phenotype = <<"fever", "rash">> THEN "objA" ELSE "objB"

\* the error response of the catch block; the sub-queries of the batch that
\* have not settled stay outstanding
ErrorResponse ==
  [handler EXCEPT !.pc = "done", !.status = 500, !.items = NoItems, !.sources = {},
                  !.pending = {p \in Procs : proc[p].batch = 1 /\ ~Settled(p)},
                  !.failed = {p \in Procs : proc[p].batch = 1 /\ Rejected(p)},
                  !.hits = {p \in Procs : proc[p].batch = 1 /\ Fulfilled(p)
                                          /\ proc[p].fnCalls = 0}]

\* a request arrives; step 1 awaits getOrSet(phenotypeCacheKey, fn, {ttl: GENE})
Diagnosis(keyOf, phenotype) ==
  /\ handler.pc \in {"idle", "done"}
  /\ \A p \in Procs : Free(p)
  /\ kvOps < MaxKvOps
  /\ proc' = [p \in Procs |->
               IF p = 1
               THEN [IdleProc EXCEPT !.pc = "get", !.ns = "variants",
                                     !.key = PhenotypeCacheKey(phenotype),
                                     !.ttl = CACHE_TTL_GENE,
                                     !.since = LiveGetOrSet(getKey("variants", PhenotypeCacheKey(phenotype)))]
               ELSE IdleProc]
  /\ handler' = [IdleHandler EXCEPT !.pc = "phenotype", !.phenotype = phenotype,
                                    !.keyOf = keyOf]
  /\ kvOps' = kvOps + 1
  /\ UNCHANGED <<kv, clock, lastSet, failedSince>>
  /\ UNCHANGED <<dx, regVars, uVars>>

\* the phenotype lookup rejects: the catch block answers 500
PhenotypeFailed ==
  /\ handler.pc = "phenotype"
  /\ Rejected(1)
  /\ handler' = ErrorResponse
  /\ UNCHANGED <<dx, regVars, kvVars, uVars>>

\* the phenotype lookup resolves: fn has pushed its record if it ran, the
\* handler pushes the "Cache" record if candidateGenes is truthy, and step 2
\* starts one getOrSet per variant with Promise.all
VariantsFanOut ==
  /\ handler.pc = "phenotype"
  /\ Fulfilled(1)
  /\ LET candidateGenes == proc[1].result.value
         pushedByFn == IF proc[1].fnCalls > 0
                       THEN {SourceRecord("BioMCP", "phenotype_mapping", FALSE, 0)}
                       ELSE {}
         pushedAfter == IF TruthyValue(candidateGenes)
                        THEN {SourceRecord("Cache", "phenotype_mapping", TRUE, 0)}
                        ELSE {}
     IN handler' = [handler EXCEPT !.pc = "variants",
                                   !.candidateGenes = candidateGenes,
                                   !.phenotypeHit = (proc[1].fnCalls = 0),
                                   !.sources = pushedByFn \cup pushedAfter]
  /\ proc' = [p \in Procs |-> [IdleProc EXCEPT !.pc = "get", !.ns = "variants",
                                               !.key = handler.keyOf[p],
                                               !.ttl = CACHE_TTL_VARIANT,
                                               !.batch = 1,
                                               !.since = LiveGetOrSet(getKey("variants", handler.keyOf[p]))]]
  /\ UNCHANGED <<kv, clock, kvOps, lastSet, failedSince>>
  /\ UNCHANGED <<dx, regVars, uVars>>

\* one getOrSet of the batch has rejected: Promise.all rejects at once and the
\* catch block answers 500, whatever the other sub-queries are doing
VariantsReject ==
  /\ handler.pc = "variants"
  /\ \E p \in Procs : Rejected(p)
  /\ handler' = ErrorResponse
  /\ UNCHANGED <<dx, regVars, kvVars, uVars>>

\* every getOrSet of the batch has resolved: steps 3 to 6. The steps after the
\* batch call upstream and the cache themselves (laterOk: none of them fails);
\* the result reads a field of every interpretation, which throws on null;
\* ensemblCalled: the gene lookups of step 3 missed the gene cache
VariantsResolve(laterOk, ensemblCalled, diagnosisId) ==
  /\ handler.pc = "variants"
  /\ \A p \in Procs : Fulfilled(p)
  /\ LET variantInterpretations == [p \in Procs |-> proc[p].result.value]
         pushedByFn == {SourceRecord("BioMCP", "variant_interpretation", FALSE, p) :
                          p \in {q \in Procs : proc[q].fnCalls > 0}}
         pushedLater ==
           (IF ensemblCalled THEN {SourceRecord("Ensembl", "gene_info", FALSE, 0)}
            ELSE {})
           \cup {SourceRecord("BioMCP", "cancer_risk", FALSE, 0),
                 SourceRecord("PharmGKB", "drug_response", FALSE, 0)}
         key == DiagnosisCacheKey(diagnosisId)
         fk == getKey("variants", key)
         result == DiagnosisResult(handler.phenotype)
     IN IF laterOk /\ \A p \in Procs : variantInterpretations[p] # JsNull
        THEN /\ handler' = [handler EXCEPT
                              !.pc = "done", !.status = 200,
                              !.items = variantInterpretations,
                              !.sources = @ \cup pushedByFn \cup pushedLater,
                              !.hits = {p \in Procs : proc[p].fnCalls = 0}]
             /\ kv' = set(kv, "variants", key, result, CACHE_TTL_DIAGNOSIS)
             /\ lastSet' = [lastSet EXCEPT ![fk] =
                              [by |-> "set", value |-> result,
                               until |-> Until(CACHE_TTL_DIAGNOSIS)]]
             /\ failedSince' = [failedSince EXCEPT ![fk] = FALSE]
             /\ dx' = [dx EXCEPT !.produced =
                         @ \cup {[id |-> diagnosisId, result |-> result,
                                  at |-> clock]}]
        ELSE /\ handler' = ErrorResponse
             /\ UNCHANGED <<kv, lastSet, failedSince, dx>>
  /\ UNCHANGED <<clock, proc, kvOps>>
  /\ UNCHANGED <<regVars, uVars>>

\* GET /api/diagnosis/:id: variantCache.get(`diagnosis:${id}`); a falsy
\* result is answered 404 "Diagnosis not found", any other is the body; the
\* handler has no try/catch, so a rejected get leaves it as an error
GetDiagnosis(id) ==
  /\ LET result == get("variants", DiagnosisCacheKey(id))
     IN dx' = [dx EXCEPT !.lookup =
                 IF result = SyntaxError
                 THEN [status |-> 500, id |-> id, body |-> "Internal Server Error",
                       at |-> clock]
                 ELSE IF ~TruthyValue(result)
                 THEN [status |-> 404, id |-> id, body |-> "Diagnosis not found",
                       at |-> clock]
                 ELSE [status |-> 200, id |-> id, body |-> result, at |-> clock]]
  /\ UNCHANGED handler
  /\ UNCHANGED <<regVars, kvVars, uVars>>

\* time passes, up to a later one of the times the 1-hour TTL tells apart
LookupTimes ==
  {0, CACHE_TTL_DIAGNOSIS - 1, CACHE_TTL_DIAGNOSIS, CACHE_TTL_DIAGNOSIS + 1}

Elapse(t) ==
  /\ t > clock
  /\ clock' = t
  /\ UNCHANGED <<kv, proc, kvOps, lastSet, failedSince>>
  /\ UNCHANGED <<regVars, hVars, uVars>>

NextDiag ==
  \/ \E keyOf \in [Procs -> CacheKeys], phenotype \in PhenotypeLists :
       Diagnosis(keyOf, phenotype)
  \/ PhenotypeFailed
  \/ VariantsFanOut
  \/ VariantsReject
  \/ \E laterOk \in BOOLEAN, ensemblCalled \in BOOLEAN, diagnosisId \in DiagnosisIds :
       VariantsResolve(laterOk, ensemblCalled, diagnosisId)
  \/ \E p \in Procs : GetReturn(p)
  \/ \E p \in Procs, v \in Values : FnReturn(p, v)
  \/ \E p \in Procs, e \in Errors : FnThrow(p, e)
  \/ \E p \in Procs : SetReturn(p)

\* the cache under requests to POST /api/diagnosis
SpecDiag == Init /\ [][NextDiag]_vars

\* POST /api/drugs/response arrives: 400 without genes, otherwise the handler
\* awaits geneCache.getOrSet(cacheKey, fn, {ttl: CACHE_TTL.DRUG})
DrugResponse(genes, variantList) ==
  /\ dx.drug.pc \in {"idle", "done"}
  /\ \A p \in Procs : Free(p)
  /\ kvOps < MaxKvOps
  /\ kvOps' = kvOps + 1
  /\ IF Len(genes) = 0
     THEN /\ dx' = [dx EXCEPT !.drug = [@ EXCEPT !.pc = "done", !.genes = genes,
                                                 !.variants = variantList,
                                                 !.status = 400,
                                                 !.body = "Missing required field: genes"]]
          /\ UNCHANGED proc
     ELSE /\ dx' = [dx EXCEPT !.drug = [@ EXCEPT !.pc = "waiting",
                                                 !.genes = SortGenes(genes),
                                                 !.variants = variantList,
                                                 !.status = 0, !.body = JsNull]]
          /\ proc' = [p \in Procs |->
                        IF p = 1
                        THEN [IdleProc EXCEPT
                                !.pc = "get", !.ns = "genes",
                                !.key = DrugCacheKey(genes, variantList),
                                !.ttl = CACHE_TTL_DRUG,
                                !.since = LiveGetOrSet(getKey("genes", DrugCacheKey(genes, variantList)))]
                        ELSE IdleProc]
  /\ UNCHANGED <<kv, clock, lastSet, failedSince>>
  /\ UNCHANGED handler
  /\ UNCHANGED <<regVars, uVars>>

\* what the two upstream sources answer for the genes and the list of
\* variants of a request
UpstreamDrugResponse(genes, variantList) ==
  IF variantList = <<"h1">> THEN "objA" ELSE "objB"

\* fn resolves: both getDrugResponse calls of Promise.all have resolved
DrugFnReturn ==
  /\ dx.drug.pc = "waiting"
  /\ FnReturn(1, UpstreamDrugResponse(dx.drug.genes, dx.drug.variants))

\* getOrSet has settled: c.json(response), or the catch block answers 500
DrugRespond ==
  /\ dx.drug.pc = "waiting"
  /\ Settled(1)
  /\ LET fk == getKey(proc[1].ns, proc[1].key)
     IN dx' = [dx EXCEPT !.drug =
                 IF Rejected(1)
                 THEN [@ EXCEPT !.pc = "done", !.status = 500,
                                !.body = "Failed to get drug response"]
                 ELSE [@ EXCEPT !.pc = "done", !.status = 200,
                                !.body = proc[1].result.value,
                                !.answered = @ \cup
                                  {[genes |-> dx.drug.genes,
                                    body |-> proc[1].result.value,
                                    until |-> IF lastSet[fk] = NoSet THEN 0
                                              ELSE lastSet[fk].until]}]]
  /\ UNCHANGED handler
  /\ UNCHANGED <<regVars, kvVars, uVars>>

DrugTimes == {0, CACHE_TTL_DRUG - 1, CACHE_TTL_DRUG}

NextDrugs ==
  \/ \E genes \in GeneLists \cup {<<>>}, variantList \in VariantLists :
       DrugResponse(genes, variantList)
  \/ GetReturn(1)
  \/ DrugFnReturn
  \/ \E e \in Errors : FnThrow(1, e)
  \/ SetReturn(1)
  \/ DrugRespond
  \/ \E t \in DrugTimes : Elapse(t)

\* the gene cache under requests to POST /api/drugs/response
SpecDrugs == Init /\ [][NextDrugs]_vars

NextDx ==
  \/ \E phenotype \in PhenotypeLists :
       Diagnosis([p \in Procs |-> "variant:h1"], phenotype)
  \/ PhenotypeFailed
  \/ VariantsFanOut
  \/ VariantsReject
  \/ \E laterOk \in BOOLEAN, diagnosisId \in DiagnosisIds :
       VariantsResolve(laterOk, TRUE, diagnosisId)
  \/ \E p \in Procs : GetReturn(p)
  \/ \E p \in Procs : FnReturn(p, "objA")
  \/ \E p \in Procs, e \in Errors : FnThrow(p, e)
  \/ \E p \in Procs : SetReturn(p)
  \/ \E id \in DiagnosisIds : GetDiagnosis(id)
  \/ \E t \in LookupTimes : Elapse(t)

\* diagnoses produced, looked up by id and left to expire
SpecDx == Init /\ [][NextDx]_vars

\* ------------------------------------------------ variant routes: actions
VreqFree == vreq.pc \in {"idle", "done"}

\* POST /api/variants/interpret arrives: Promise.all(variantList.map(...))
\* starts one item per variant, each awaiting variantCache.get(cacheKey)
Interpret(variantList) ==
  /\ VreqFree
  /\ kvOps < MaxKvOps
  /\ vreq' = [vreq EXCEPT !.route = "interpret", !.pc = "waiting", !.status = 0,
                          !.thrown = "none",
                          !.item = [p \in Procs |->
                                      [IdleItem EXCEPT !.pc = "get",
                                                       !.hgvs = variantList[p]]]]
  /\ kvOps' = kvOps + 1
  /\ UNCHANGED <<kv, clock, proc, lastSet, failedSince, bx, shared>>
  /\ UNCHANGED <<regVars, hVars>>

\* GET /api/variants/:hgvs arrives: it awaits variantCache.getOrSet(cacheKey, fn)
GetVariantByHgvs(hgvs) ==
  /\ VreqFree
  /\ kvOps < MaxKvOps
  /\ vreq' = [vreq EXCEPT !.route = "get", !.pc = "waiting", !.status = 0,
                          !.thrown = "none",
                          !.item = [p \in Procs |->
                                      IF p = 1
                                      THEN [IdleItem EXCEPT !.pc = "get", !.hgvs = hgvs]
                                      ELSE IdleItem]]
  /\ kvOps' = kvOps + 1
  /\ UNCHANGED <<kv, clock, proc, lastSet, failedSince, bx, shared>>
  /\ UNCHANGED <<regVars, hVars>>

\* the cache get of an item resolves: interpret returns a truthy value tagged
\* source "cache", getOrSet returns a value that is not null; otherwise the
\* item awaits biothings.getVariant(hgvs)
ItemCacheGet(p) ==
  /\ vreq.item[p].pc = "get"
  /\ LET cached == get("variants", VariantCacheKey(vreq.item[p].hgvs))
         hit == IF vreq.route = "interpret" THEN TruthyValue(cached)
                ELSE cached # JsNull
     IN vreq' = [vreq EXCEPT
                   !.item[p] = IF hit
                               THEN [@ EXCEPT !.pc = "done",
                                              !.result = [value |-> cached,
                                                          source |-> "cache"]]
                               ELSE [@ EXCEPT !.pc = "upstream"]]
  /\ UNCHANGED <<kvVars, bx, shared>>
  /\ UNCHANGED <<regVars, hVars>>

\* biothings.getVariant resolves: [the item, the store] afterwards. On null,
\* interpret returns the item {hgvs, error: "Variant not found", source:
\* "biothings"} and the fn of GET /:hgvs throws Error("Variant not found"),
\* which getOrSet lets through; otherwise the result is built (the optional
\* Ensembl lookup only adds a field, its failure is swallowed) and the item
\* awaits the cache set
AfterUpstream_CacheNotFound(p, outcome) ==
  <<[vreq.item[p] EXCEPT !.pc = "done", !.upstream = outcome,
                         !.result = [error |-> "Variant not found",
                                     source |-> "biothings"]],
    set(kv, "variants", VariantCacheKey(vreq.item[p].hgvs), JsNull, CACHE_TTL_VARIANT)>>

AfterUpstream(p, outcome) ==
  LET variantData == BioThingsGetVariant(vreq.item[p].hgvs, outcome)
  IN <<IF variantData = JsNull
       THEN IF vreq.route = "interpret"
            THEN [vreq.item[p] EXCEPT !.pc = "done", !.upstream = outcome,
                                      !.result = [error |-> "Variant not found",
                                                  source |-> "biothings"]]
            ELSE [vreq.item[p] EXCEPT !.pc = "done", !.upstream = outcome,
                                      !.thrown = "Variant not found"]
       ELSE [vreq.item[p] EXCEPT !.pc = "set", !.upstream = outcome,
                                 !.value = variantData],
       kv>>

ItemUpstream(p, outcome) ==
  /\ vreq.item[p].pc = "upstream"
  /\ vreq' = [vreq EXCEPT
                !.item[p] = AfterUpstream(p, outcome)[1],
                !.notFound[vreq.item[p].hgvs] = IF outcome = "404" THEN TRUE ELSE @]
  /\ kv' = AfterUpstream(p, outcome)[2]
  /\ UNCHANGED <<clock, proc, kvOps, lastSet, failedSince, bx, shared>>
  /\ UNCHANGED <<regVars, hVars>>

\* the cache set of an item resolves (ttl CACHE_TTL.VARIANT) and the item
\* returns its result
ItemSet(p) ==
  /\ vreq.item[p].pc = "set"
  /\ LET hgvs == vreq.item[p].hgvs
         key == VariantCacheKey(hgvs)
         fk == getKey("variants", key)
     IN /\ kv' = set(kv, "variants", key, vreq.item[p].value, CACHE_TTL_VARIANT)
        /\ lastSet' = [lastSet EXCEPT ![fk] =
                         [by |-> IF vreq.route = "get" THEN "getOrSet" ELSE "set",
                          value |-> vreq.item[p].value,
                          until |-> Until(CACHE_TTL_VARIANT)]]
        /\ failedSince' = [failedSince EXCEPT ![fk] = FALSE]
        /\ vreq' = [vreq EXCEPT !.item[p] = [@ EXCEPT !.pc = "done",
                                                      !.result = [value |-> vreq.item[p].value,
                                                                  source |-> "biothings"]],
                                !.notFound[hgvs] = FALSE]
  /\ UNCHANGED <<clock, proc, kvOps, bx, shared>>
  /\ UNCHANGED <<regVars, hVars>>

\* every item has returned: c.json({count, variants: results, note})
InterpretRespond ==
  /\ vreq.route = "interpret" /\ vreq.pc = "waiting"
  /\ \A p \in Procs : vreq.item[p].pc = "done"
  /\ vreq' = [vreq EXCEPT !.pc = "done", !.status = 200]
  /\ UNCHANGED <<kvVars, bx, shared>>
  /\ UNCHANGED <<regVars, hVars>>

\* getOrSet has settled: c.json(result), or its error leaves the handler,
\* which has no try/catch
GetVariantRespond ==
  /\ vreq.route = "get" /\ vreq.pc = "waiting"
  /\ vreq.item[1].pc = "done"
  /\ vreq' = [vreq EXCEPT !.pc = "done",
                          !.status = IF vreq.item[1].thrown = "none" THEN 200 ELSE 0,
                          !.thrown = vreq.item[1].thrown]
  /\ UNCHANGED <<kvVars, bx, shared>>
  /\ UNCHANGED <<regVars, hVars>>

NextVariants ==
  \/ \E variantList \in [Procs -> Keys] : Interpret(variantList)
  \/ \E hgvs \in Keys : GetVariantByHgvs(hgvs)
  \/ \E p \in Procs : ItemCacheGet(p)
  \/ \E p \in Procs, outcome \in UpstreamOutcomes : ItemUpstream(p, outcome)
  \/ \E p \in Procs : ItemSet(p)
  \/ InterpretRespond
  \/ GetVariantRespond

\* the cache under requests to the variant routes
SpecVariants == Init /\ [][NextVariants]_vars

\* GET /api/variants/registry/stats arrives: the handler sends its request to
\* the registry shard and awaits the answer
RegistryStats ==
  /\ VreqFree
  /\ ops < MaxOps
  /\ vreq' = [vreq EXCEPT !.route = "stats", !.pc = "fetch", !.status = 0,
                          !.thrown = "none", !.stats = NoEntry,
                          !.sent = @ \cup {StatsRequest}, !.seq = ops]
  /\ UNCHANGED <<kvVars, bx, shared>>
  /\ UNCHANGED <<regVars, hVars>>

\* the request reaches the shard: VariantRegistry.fetch(request)
StatsArrive ==
  /\ vreq.route = "stats" /\ vreq.pc = "fetch" /\ vreq.seq = ops
  /\ Arrive(1, RegistryRoute(StatsRequest), RegistryHgvs(StatsRequest), NoBody)

\* the shard has answered: 500 "Failed to get registry stats" when the answer
\* is not ok, c.json(stats) otherwise; an exception of the shard rejects the
\* fetch and leaves the handler, which has no try/catch
StatsRespond ==
  /\ vreq.route = "stats" /\ vreq.pc = "fetch" /\ vreq.seq < ops
  /\ req[1].pc = "done"
  /\ vreq' = [vreq EXCEPT
               !.pc = "done",
               !.status = CASE req[1].result = "error" -> 0
                            [] req[1].result = "notfound" -> 500
                            [] OTHER -> 200,
               !.thrown = IF req[1].result = "error" THEN "Error" ELSE "none",
               !.stats = IF req[1].result = "ok" THEN req[1].resp ELSE NoEntry]
  /\ UNCHANGED <<kvVars, bx, shared>>
  /\ UNCHANGED <<regVars, hVars>>

\* no handler of the worker is running
WorkerIdle ==
  /\ VreqFree
  /\ handler.pc \in {"idle", "done"}
  /\ dx.drug.pc \in {"idle", "done"}

NextWorker ==
  \/ \E variantList \in [Procs -> Keys] : WorkerIdle /\ Interpret(variantList)
  \/ \E hgvs \in Keys : WorkerIdle /\ GetVariantByHgvs(hgvs)
  \/ \E p \in Procs : ItemCacheGet(p)
  \/ \E p \in Procs, outcome \in UpstreamOutcomes : ItemUpstream(p, outcome)
  \/ \E p \in Procs : ItemSet(p)
  \/ InterpretRespond
  \/ GetVariantRespond
  \/ WorkerIdle /\ RegistryStats
  \/ StatsArrive
  \/ StatsRespond
  \/ \E r \in Reqs : ListDone(r)
  \/ \E r \in Reqs : ListFail(r)
  \/ Restart
  \/ \E variantList \in VariantLists :
       WorkerIdle /\ DrugResponse(<<"TP53">>, variantList)
  \/ DrugFnReturn
  \/ DrugRespond
  \/ WorkerIdle /\ Diagnosis([p \in Procs |-> "variant:h1"], <<"fever", "rash">>)
  \/ PhenotypeFailed
  \/ VariantsFanOut
  \/ VariantsReject
  \/ \E laterOk \in BOOLEAN :
       VariantsResolve(laterOk, TRUE, "dx_1700000000000_k3f9")
  \/ \E p \in Procs : GetReturn(p)
  \/ \E p \in Procs : handler.pc \in {"phenotype", "variants"} /\ FnReturn(p, "objA")
  \/ \E p \in Procs : FnThrow(p, "UpstreamError")
  \/ \E p \in Procs : SetReturn(p)

\* the worker's handlers, one request at a time, and the registry shard the
\* worker talks to
SpecWorker == Init /\ [][NextWorker]_vars

\* ------------------------------------------------------------ both tiers
\* the registry and the cache share no state: a run exercises the registry and
\* then deletes cache keys, or exercises the cache alone
KvPristine ==
  /\ kv = [fk \in FullKeys |-> NoKV]
  /\ clock = 0
  /\ proc = [p \in Procs |-> IdleProc]
  /\ kvOps = 0

RegPristine == ops = 0 /\ now = 1

NextTiers ==
  \/ KvPristine /\ NextRegSeq
  \/ RegPristine /\ NextKV
  \/ Quiescent /\ \E ns \in Namespaces, key \in CacheKeys : Delete(ns, key)

SpecTiers == Init /\ [][NextTiers]_vars

\* ------------------------------------------------------- registry: claims
Done(r) == req[r].pc = "done"

\* C1: on one request at a time, an entry that was stored and since then
\* neither stored again nor deleted has access_count equal to its count at the
\* store plus the number of successful reads since, in the index and in
\* storage; a successful read answers with the count it found plus one; and
\* no step lowers the access_count of an entry of the index.
C1_CountIsBasePlusReads ==
  /\ \A k \in Keys :
       (base[k] # -1 /\ Quiescent) =>
         /\ storage[k] # NoEntry
         /\ storage[k].access_count = base[k] + reads[k]
         /\ variants[k] # 0 => View(Cur)[k].access_count = base[k] + reads[k]
  /\ \A r \in Reqs :
       (Done(r) /\ req[r].method = "GET" /\ req[r].result = "ok") =>
         req[r].resp.access_count = req[r].pre + 1

C1_NeverDecreases ==
  \A k \in Keys :
    (variants[k] # 0 /\ variants'[k] # 0) =>
      heap'[variants'[k]].access_count >= heap[variants[k]].access_count

C1_MonotonicAccessCount == [](C1_CountIsBasePlusReads) /\ [][C1_NeverDecreases]_vars

\* a new entry was stored and then read twice: the second read answers 2
C1_Witness ==
  \E r \in Reqs :
    /\ Done(r) /\ req[r].method = "GET" /\ req[r].result = "ok"
    /\ base[req[r].hgvs] = 0 /\ reads[req[r].hgvs] = 2
    /\ req[r].resp.access_count = 2

\* C2: with concurrent requests, when no request is in flight every entry
\* stored and since then neither stored again nor deleted (and free of failed
\* writes) has, in the index and in storage, its count at the store plus the
\* number of successful reads completed since: no read is lost.
C2_NoLostUpdate ==
  \A k \in Keys :
    (base[k] # -1 /\ Quiescent /\ storage[k] # NoEntry) =>
      /\ storage[k].access_count = base[k] + reads[k]
      /\ variants[k] # 0 => View(Cur)[k].access_count = base[k] + reads[k]

\* C7: when the storage write of a request has failed, the index is what it
\* was when the operation began.
C7_NoPartialApply ==
  \A r \in Reqs :
    (Done(r) /\ req[r].failed) => View(Cur) = req[r].snap

\* C8: a request whose storage call failed never ends with a success response.
C8_StorageFailureFailsRequest ==
  \A r \in Reqs :
    req[r].failed => (req[r].result = "error" /\ req[r].resp = NoEntry)

\* the storage.put of a getVariant was rejected and the request has ended
C8_Witness ==
  \E r \in Reqs :
    Done(r) /\ req[r].failed /\ req[r].method = "GET" /\ req[r].ref # 0

\* C9: an instance calls storage.list at most once in its lifetime.
C9_HydratesOnce == listCalls <= 1

\* C10: after successful operations only, a fresh instance over the same
\* storage reports as total_variants the count the previous instance had, its
\* summaries are those of the persisted records, and a read it serves is the
\* record as persisted.
StoredKeys == {k \in Keys : storage[k] # NoEntry}

C10_HydrationCorrect ==
  \A r \in Reqs :
    (Done(r) /\ req[r].result = "ok" /\ before # -1 /\ ~anyFail) =>
      /\ req[r].method = "STATS" =>
           /\ req[r].resp.total_variants = before
           /\ req[r].resp.variants = [k \in StoredKeys |-> Summary(storage[k])]
      /\ req[r].method = "GET" => req[r].resp = storage[req[r].hgvs]

\* a fresh instance over a shard holding records has answered GET /stats
C10_Witness ==
  \E r \in Reqs :
    /\ Done(r) /\ req[r].result = "ok" /\ req[r].method = "STATS"
    /\ before >= 1 /\ ~anyFail
    /\ \E k \in StoredKeys : storage[k].access_count >= 1

\* C11: after a completed getVariant, storeVariant or deleteVariant whose
\* storage call succeeded (no request in flight), the index and storage hold
\* the same keys and, for each key, the same record.
C11_WriteThrough ==
  \A r \in Reqs :
    (Quiescent /\ Done(r) /\ req[r].result = "ok"
     /\ req[r].method \in {"GET", "POST", "DELETE"}) =>
      View(Cur) = storage

\* C12: with one request at a time, a storeVariant or successful getVariant on
\* an entry that exists answers with the created_at the entry had; no step
\* changes the created_at of an entry of the index; and the step in which
\* storeVariant or getVariant writes an entry sets its updated_at to the time
\* of that step.
C12_ResponseKeepsCreatedAt ==
  \A r \in Reqs :
    (Done(r) /\ req[r].result = "ok" /\ req[r].method \in {"GET", "POST"}
     /\ req[r].snap[req[r].hgvs] # NoEntry) =>
      req[r].resp.created_at = req[r].snap[req[r].hgvs].created_at

C12_IndexKeepsCreatedAt ==
  /\ \A k \in Keys :
       (variants[k] # 0 /\ variants'[k] # 0) =>
         /\ heap'[variants'[k]].created_at = heap[variants[k]].created_at
         /\ heap'[variants'[k]] # heap[variants[k]] =>
              heap'[variants'[k]].updated_at = now
  /\ \A r \in Reqs :
       (req[r].pc # "put" /\ req'[r].pc = "put") =>
         /\ variants'[req'[r].hgvs] = req'[r].ref
         /\ heap'[req'[r].ref].updated_at = now

C12_CreatedAtImmutable ==
  [](C12_ResponseKeepsCreatedAt) /\ [][C12_IndexKeepsCreatedAt]_vars

\* an entry created at time 1 was stored again at time 2
C12_Witness ==
  \E r \in Reqs :
    /\ Done(r) /\ req[r].result = "ok" /\ req[r].method = "POST"
    /\ req[r].snap[req[r].hgvs] # NoEntry
    /\ req[r].resp.created_at = 1 /\ req[r].resp.updated_at = 2
    /\ storage[req[r].hgvs] = req[r].resp

\* C13: the step in which storeVariant writes an entry gives it the
\* access_count and created_at of the entry the index held for that hgvs (0
\* and now when it held none), updated_at = now and the caller's hgvs, gene,
\* interpretation and sources, whatever counters the body carried, and hands
\* that record to storage.put; the entry a completed storeVariant returns is
\* the record in storage.
C13_StoredFromRegistry ==
  \A r \in Reqs :
    (req[r].pc = "json" /\ req'[r].pc = "put") =>
      LET data == req[r].body
          existing == View(Cur)[data.hgvs]
          entry == heap'[req'[r].ref]
      IN /\ entry.access_count = (IF existing = NoEntry THEN 0 ELSE existing.access_count)
         /\ entry.created_at = (IF existing = NoEntry THEN now ELSE existing.created_at)
         /\ entry.updated_at = now
         /\ entry.hgvs = data.hgvs /\ entry.gene = data.gene
         /\ entry.interpretation = data.interpretation
         /\ entry.sources = data.sources
         /\ variants'[data.hgvs] = req'[r].ref
         /\ sq'[Len(sq')] = [req |-> r, op |-> "put", key |-> data.hgvs, value |-> entry]

C13_ReturnsStoredRecord ==
  \A r \in Reqs :
    (Done(r) /\ req[r].result = "ok" /\ req[r].method = "POST") =>
      req[r].resp = storage[req[r].hgvs]

C13_Upsert == [](C13_ReturnsStoredRecord) /\ [][C13_StoredFromRegistry]_vars

\* an entry that had been read was stored again from a body carrying counters
C13_Witness ==
  \E r \in Reqs :
    /\ Done(r) /\ req[r].result = "ok" /\ req[r].method = "POST"
    /\ "access_count" \in DOMAIN req[r].body
    /\ req[r].snap[req[r].hgvs] # NoEntry
    /\ req[r].snap[req[r].hgvs].access_count = 1
    /\ req[r].resp.access_count = 1

\* C14: the step in which a getVariant for an hgvs the index does not hold is
\* answered NotFound, on an instance whose index is loaded (the request did
\* not wait for the hydration, or storage holds no record), changes neither
\* the index nor storage and issues no storage operation.
C14_MissStep(r) ==
  /\ req'[r] # req[r]
  /\ req'[r].pc = "done" /\ req'[r].method = "GET" /\ req'[r].result = "notfound"
  /\ (req[r].pc # "list" \/ StoredKeys = {})

C14_MissChangesNothing ==
  \A r \in Reqs :
    C14_MissStep(r) =>
      /\ storage' = storage
      /\ View(Cur)' = View(Cur)
      /\ Len(sq') <= Len(sq)
      /\ req'[r].resp = NoEntry

C14_NotFoundNoSideEffects == [][C14_MissChangesNothing]_vars

\* a getVariant of an absent hgvs was answered NotFound on a shard that holds
\* another entry
C14_Witness ==
  \E r \in Reqs :
    /\ Done(r) /\ req[r].method = "GET" /\ req[r].result = "notfound"
    /\ variants[req[r].hgvs] = 0
    /\ Size(Cur) = 1 /\ View(Cur) = storage
    /\ ops = 2

\* C15: a KVCache.delete leaves the key reading absent and every other key as
\* it was, and leaves the whole store as it was when the key was absent; a
\* completed deleteVariant leaves the hgvs out of the index and of storage and
\* every other entry as it was, and leaves index and storage as they were
\* when the hgvs was absent; a deleteVariant ends in an error only when its
\* storage call failed.
C15_KvDeleteStep ==
  \A ns \in Namespaces, key \in CacheKeys :
    Delete(ns, key) =>
      /\ KvGetJson(kv', getKey(ns, key), clock') = JsNull
      /\ \A fk \in FullKeys \ {getKey(ns, key)} : kv'[fk] = kv[fk]
      /\ kv[getKey(ns, key)] = NoKV => kv' = kv

C15_RegDeleteStep ==
  \A r \in Reqs :
    (DeleteDone(r) /\ req'[r].result = "ok") =>
      LET k == req'[r].hgvs
      IN /\ variants'[k] = 0 /\ storage'[k] = NoEntry
         /\ \A k2 \in Keys \ {k} :
              storage'[k2] = storage[k2] /\ View(Cur)'[k2] = req'[r].snap[k2]
         /\ storage[k] = NoEntry => storage' = storage
         /\ req'[r].snap[k] = NoEntry => View(Cur)' = req'[r].snap

C15_DeleteNeverFailsByItself ==
  \A r \in Reqs :
    (Done(r) /\ req[r].method = "DELETE") =>
      (req[r].result = "ok" /\ ~req[r].failed) \/ (req[r].result = "error" /\ req[r].failed)

C15_IdempotentDelete ==
  /\ [](C15_DeleteNeverFailsByItself)
  /\ [][C15_KvDeleteStep /\ C15_RegDeleteStep]_vars

\* an absent hgvs was deleted from a shard that holds another entry, and an
\* absent key was deleted from the cache
C15_Witness ==
  \E r \in Reqs :
    /\ Done(r) /\ req[r].method = "DELETE" /\ req[r].result = "ok"
    /\ req[r].snap[req[r].hgvs] = NoEntry
    /\ Size(Cur) = 1 /\ View(Cur) = storage
    /\ kvOps >= 1 /\ \A fk \in FullKeys : kv[fk] = NoKV

\* C16: the step in which getStats answers leaves the response with
\* total_variants equal to the number of entries in the index and with exactly
\* one summary per indexed entry, built of the entry's current hgvs, gene,
\* access_count, created_at and updated_at; on an empty index the response is
\* total_variants 0 with no summaries; and getStats changes neither storage
\* nor (hydration aside) the index, and issues no storage operation.
C16_StatsStep(r) ==
  /\ req'[r] # req[r]
  /\ req'[r].pc = "done" /\ req'[r].method = "STATS" /\ req'[r].result = "ok"

C16_StatsOfIndex ==
  \A r \in Reqs :
    C16_StatsStep(r) =>
      LET stats == req'[r].resp
          indexed == {k \in Keys : variants'[k] # 0}
      IN /\ stats.total_variants = Cardinality(indexed)
         /\ DOMAIN stats.variants = indexed
         /\ \A k \in indexed :
              LET v == heap'[variants'[k]]
              IN stats.variants[k] =
                   [hgvs |-> k, gene |-> v.gene, access_count |-> v.access_count,
                    created_at |-> ToISOString(v.created_at),
                    updated_at |-> ToISOString(v.updated_at)]
         /\ indexed = {} => (stats.total_variants = 0 /\ stats.variants = <<>>)
         /\ storage' = storage
         /\ Len(sq') <= Len(sq)
         /\ req[r].pc # "list" => View(Cur)' = View(Cur)

C16_GetStats == [][C16_StatsOfIndex]_vars

\* getStats answered on the instance that stored an entry and served one read
\* of it
C16_Witness ==
  \E r \in Reqs :
    /\ Done(r) /\ req[r].method = "STATS" /\ req[r].result = "ok"
    /\ listCalls = 1 /\ ops = 3
    /\ req[r].resp.total_variants = 1
    /\ \E k \in DOMAIN req[r].resp.variants : req[r].resp.variants[k].access_count = 1

\* C17: with concurrent requests, the step in which getStats answers gives a
\* response whose total_variants is the number of its summaries and whose
\* summary of each entry is that of the entry as the index holds it at that
\* instant; and when mutations of the entry are still awaiting storage, the
\* summary is that of the record the latest of them handed to storage.put
\* (the entry entirely after that mutation, never a mix of fields).
C17_SnapshotStep ==
  \A r \in Reqs :
    (/\ req'[r] # req[r]
     /\ req'[r].pc = "done" /\ req'[r].method = "STATS" /\ req'[r].result = "ok") =>
      LET stats == req'[r].resp
      IN /\ stats.total_variants = Cardinality(DOMAIN stats.variants)
         /\ \A k \in DOMAIN stats.variants :
              LET puts == {i \in 1..Len(sq') :
                             /\ sq'[i].op = "put" /\ sq'[i].key = k
                             /\ req'[sq'[i].req].ref = variants'[k]}
                  last == CHOOSE i \in puts : \A j \in puts : j <= i
              IN /\ variants'[k] # 0
                 /\ stats.variants[k] = Summary(heap'[variants'[k]])
                 /\ puts # {} => stats.variants[k] = Summary(sq'[last].value)

C17_ConsistentSnapshot == [][C17_SnapshotStep]_vars

\* getStats answered while a getVariant that had bumped an entry was still
\* awaiting storage.put: the summary shows the bumped entry
C17_Witness ==
  \E r, g \in Reqs :
    /\ Done(r) /\ req[r].method = "STATS" /\ req[r].result = "ok"
    /\ req[g].pc = "put" /\ req[g].method = "GET"
    /\ req[g].hgvs \in DOMAIN req[r].resp.variants
    /\ storage[req[g].hgvs] # NoEntry
    /\ storage[req[g].hgvs].access_count = req[g].pre
    /\ req[r].resp.variants[req[g].hgvs].access_count = req[g].pre + 1
    /\ req[r].resp.variants[req[g].hgvs].updated_at
         # ToISOString(storage[req[g].hgvs].updated_at)

\* -------------------------------------------------------- KVCache: claims
\* C3: in the fan-out of one handler, the sub-queries that carry the same key
\* call the upstream data source at most once between them.
C3_OneFetchPerKey ==
  \A p, q \in Procs :
    (p # q /\ proc[p].batch = 1 /\ proc[q].batch = 1
     /\ proc[p].ns = proc[q].ns /\ proc[p].key = proc[q].key) =>
      proc[p].fnCalls + proc[q].fnCalls <= 1

\* C4: after set(key, value, {ttl: t}) with no later set or delete of the key,
\* get(key) is the value while less than t seconds have passed and is absent
\* from t seconds on.
C4_TtlExpiry ==
  \A ns \in Namespaces, key \in CacheKeys :
    LET ls == lastSet[getKey(ns, key)]
    IN (ls # NoSet /\ ls.until # NoTtl) =>
         IF clock < ls.until THEN get(ns, key) = ls.value
         ELSE get(ns, key) = JsNull

\* C5: a getOrSet invokes fn once when its get misses and not at all when it
\* hits; and when the last set of the key is that of a getOrSet whose fn gave
\* v, and has not expired, a getOrSet returns v without invoking its fn.
C5_GetOrSetVisible ==
  \A p \in Procs :
    /\ proc[p].fnCalls <= 1
    /\ (proc[p].pc = "done" /\ proc[p].fnCalls = 0) =>
         (proc[p].result # [value |-> JsNull] /\ proc[p].puts = 0)
    /\ (proc[p].pc \in {"fn", "set", "done"} /\ proc[p].live # "none") =>
         /\ proc[p].fnCalls = 0
         /\ proc[p].result = [value |-> proc[p].live]

\* C6: a getOrSet whose fn failed ends with that same failure and has issued
\* no set; the step in which fn fails leaves the store as it was; and a
\* getOrSet that reads the key after a failed compute, with no set since,
\* invokes its fn.
C6_FailurePropagates ==
  \A p \in Procs :
    /\ proc[p].thrown # "none" =>
         /\ proc[p].pc = "done"
         /\ proc[p].result = [error |-> proc[p].thrown]
         /\ proc[p].puts = 0
    /\ (proc[p].afterFail /\ proc[p].pc # "get") => proc[p].fnCalls = 1

C6_StoreUntouched ==
  \A p \in Procs :
    (proc[p].thrown = "none" /\ proc'[p].thrown # "none") => kv' = kv

C6_NoNegativeCaching == [](C6_FailurePropagates) /\ [][C6_StoreUntouched]_vars

\* a compute failed and a later getOrSet of the same key invoked its fn again
C6_Witness ==
  \E p, q \in Procs :
    /\ p # q
    /\ proc[p].thrown = "UpstreamError" /\ proc[p].result = [error |-> "UpstreamError"]
    /\ proc[q].key = proc[p].key /\ proc[q].afterFail /\ proc[q].fnCalls = 1

\* ------------------------------------------------------- handlers: claims
\* the sub-queries of the batch that had resolved when the response was made
FulfilledAtResponse == Procs \ (handler.failed \cup handler.pending)

\* C18: when one sub-query of the variant batch of POST /api/diagnosis has
\* failed, the response still carries the result of every sub-query of the
\* batch that succeeded.
C18_SiblingsSurvive ==
  (handler.pc = "done" /\ handler.failed # {})
    => \A p \in FulfilledAtResponse : handler.items[p] # "none"

\* C19: the handler produces its response only after every sub-query of the
\* batch has settled: none is outstanding when the response is produced.
C19_RespondsAfterAllSettled ==
  handler.pc = "done" => handler.pending = {}

\* sources holds a record of this kind for this lookup
Tagged(queryType, item, cacheHit) ==
  \E rec \in handler.sources :
    rec.query_type = queryType /\ rec.item = item /\ rec.cache_hit = cacheHit

\* C20: in a response of POST /api/diagnosis, sources holds a record with
\* cache_hit true for a lookup exactly when that lookup was served from the
\* cache, and a record with cache_hit false exactly when upstream was called.
C20_TaggedBySource ==
  (handler.pc = "done" /\ handler.status = 200)
    => /\ Tagged("phenotype_mapping", 0, TRUE) <=> handler.phenotypeHit
       /\ Tagged("phenotype_mapping", 0, FALSE) <=> ~handler.phenotypeHit
       /\ \A p \in Procs :
            /\ Tagged("variant_interpretation", p, TRUE) <=> p \in handler.hits
            /\ Tagged("variant_interpretation", p, FALSE) <=> p \notin handler.hits

\* ------------------------------------------------- variant routes: claims
\* the step in which biothings.getVariant resolves for item p
UpstreamStep(p) ==
  vreq.item[p].pc = "upstream" /\ vreq'.item[p].pc # "upstream"

\* the item reports that the variant was not found: the item of interpret
\* carries error "Variant not found", the getOrSet of GET /:hgvs rejects with it
ReportsNotFound(item) ==
  \/ item.result # NoResult /\ "error" \in DOMAIN item.result
     /\ item.result.error = "Variant not found"
  \/ item.thrown = "Variant not found"

C21_NothingCached ==
  [][\A p \in Procs :
       (UpstreamStep(p) /\ vreq'.item[p].upstream = "404")
         => /\ kv' = kv
            /\ vreq'.item[p].pc = "done"
            /\ ReportsNotFound(vreq'.item[p])]_vars

C21_QueriesUpstreamAgain ==
  [][\A p \in Procs :
       LET hgvs == vreq.item[p].hgvs
       IN (/\ vreq.item[p].pc = "get" /\ vreq'.item[p].pc # "get"
           /\ vreq.notFound[hgvs]
           /\ lastSet[getKey("variants", VariantCacheKey(hgvs))] = NoSet)
            => vreq'.item[p].pc = "upstream"]_vars

\* C21: when upstream answers 404 for a variant, the item of POST
\* /api/variants/interpret and the getOrSet of GET /api/variants/:hgvs write
\* nothing to the cache and report "Variant not found"; while nobody sets the
\* key, the next request for the same hgvs queries upstream again.
C21_NoNegativeCaching == C21_NothingCached /\ C21_QueriesUpstreamAgain

\* a second request for h1 is querying upstream after h1 was reported not
\* found and with nothing cached for it
C21_Witness ==
  /\ kvOps = 2
  /\ vreq.notFound["h1"]
  /\ \A p \in Procs : vreq.item[p].upstream # "404"
  /\ vreq.item[1].hgvs = "h1" /\ vreq.item[1].pc = "upstream"
  /\ kv[getKey("variants", VariantCacheKey("h1"))] = NoKV

\* C22: a transport error or 5xx answer of the variant data source is never
\* reported to the caller as "Variant not found", and a 404 answer is reported
\* as not found.
C22_NotFoundDistinctFromTransient ==
  \A p \in Procs :
    vreq.item[p].pc = "done"
      => /\ vreq.item[p].upstream \in {"5xx", "network"}
              => ~ReportsNotFound(vreq.item[p])
         /\ vreq.item[p].upstream = "404" => ReportsNotFound(vreq.item[p])

\* ------------------------------------------------ KVCache: further claims
\* C23: a getOrSet whose get finds a payload that does not parse as JSON
\* raises no error and treats the key as a miss: it invokes its compute
\* function.
C23_MalformedIsMiss ==
  \A p \in Procs :
    proc[p].malformed => proc[p].thrown = "none" /\ proc[p].fnCalls = 1

\* the last set of the key has not been followed by a set or delete and, by
\* the ttl it was given, has not expired
SetInForce(fullKey) ==
  /\ lastSet[fullKey] # NoSet
  /\ lastSet[fullKey].by \in {"set", "getOrSet"}
  /\ lastSet[fullKey].until = NoTtl \/ clock < lastSet[fullKey].until

\* C24: after set(key, v), before expiry and with no set or delete in
\* between, get(key) returns a value equal to v; has(key) is true exactly
\* when get(key) is not absent.
C24_SetThenGet ==
  \A ns \in Namespaces, key \in CacheKeys :
    /\ SetInForce(getKey(ns, key)) => get(ns, key) = lastSet[getKey(ns, key)].value
    /\ has(ns, key) <=> get(ns, key) # JsNull

\* a second after set("variant:h1", objA) with a ttl still running, get
\* returns objA and has is true
C24_Witness ==
  LET fk == getKey("variants", "variant:h1")
  IN /\ SetInForce(fk) /\ lastSet[fk].by = "set" /\ lastSet[fk].value = "objA"
     /\ lastSet[fk].until # NoTtl
     /\ clock = 1
     /\ get("variants", "variant:h1") = "objA" /\ has("variants", "variant:h1")

\* the step applies a set to the key: a set of a handler, or the set of a
\* getOrSet
SetApplied(fullKey) ==
  /\ lastSet'[fullKey] # NoSet
  /\ lastSet'[fullKey].by \in {"set", "getOrSet"}
  /\ \/ kvOps' # kvOps /\ kv'[fullKey] # NoKV /\ proc' = proc
     \/ \E p \in Procs : /\ proc[p].pc = "set" /\ proc'[p].pc = "done"
                         /\ getKey(proc[p].ns, proc[p].key) = fullKey

\* whatever the key held, an applied set leaves the value it was given, with
\* no expiry when its ttl is omitted and with the expiry of its own ttl when
\* that is positive; a ttl of 0 is treated as omitted
C25_SetOverwrites ==
  [][\A fk \in FullKeys :
       SetApplied(fk)
         => /\ kv'[fk].text = JSONStringify(lastSet'[fk].value)
            /\ lastSet'[fk].until = NoTtl => kv'[fk].exp = NoTtl
            /\ (lastSet'[fk].until # NoTtl /\ lastSet'[fk].until > clock)
                 => kv'[fk].exp = lastSet'[fk].until
            /\ kv'[fk].exp \in {NoTtl, lastSet'[fk].until}]_vars

\* the store holds the value of the set that was applied last
C25_LastWriteWins ==
  \A fk \in FullKeys :
    (lastSet[fk] # NoSet /\ lastSet[fk].by \in {"set", "getOrSet"})
      => kv[fk] # NoKV /\ kv[fk].text = JSONStringify(lastSet[fk].value)

\* C25: set overwrites unconditionally: after a set on a key that already
\* holds an entry, the key holds the new value and expires by the new ttl
\* only, not at all when the new ttl is omitted; of several sets on one key
\* the value of the one applied last stays.
C25_Overwrite == []C25_LastWriteWins /\ C25_SetOverwrites

\* two calls have each applied a set to the same key, with different values;
\* the key holds the value applied last
C25_Witness ==
  /\ proc[1].pc = "done" /\ proc[2].pc = "done"
  /\ proc[1].key = proc[2].key /\ proc[1].ns = proc[2].ns
  /\ proc[1].puts = 1 /\ proc[2].puts = 1
  /\ proc[1].result = [value |-> "objA"] /\ proc[2].result = [value |-> "objB"]
  /\ lastSet[getKey(proc[1].ns, proc[1].key)].value = "objA"
  /\ get(proc[1].ns, proc[1].key) = "objA"

\* the full keys of two instances with different namespaces differ
C26_FullKeysDiffer ==
  \A n1 \in InstanceNamespaces, n2 \in InstanceNamespaces, k1 \in RawKeys, k2 \in RawKeys :
    n1 # n2 => getKey(n1, k1) # getKey(n2, k2)

\* C26: over one physical store, a set or delete through one KVCache
\* instance never changes what get returns through an instance with another
\* namespace, for all namespaces and raw keys.
C26_OtherInstanceUntouched ==
  [][\A ns \in InstanceNamespaces, key \in RawKeys :
       ns # shared'.last.ns
         => InstanceGet(shared'.store, ns, key) = InstanceGet(shared.store, ns, key)]_vars

\* ------------------------------------------------- cache keys: claims
\* list b is a rearrangement of list a
IsPermutation(a, b) ==
  /\ Len(a) = Len(b)
  /\ \E f \in Permutations(DOMAIN a) : b = [i \in DOMAIN a |-> a[f[i]]]

\* the key of POST /api/drugs/response is the same for gene lists that are
\* rearrangements of each other
DrugKeySorted ==
  \A a \in GeneLists, b \in GeneLists :
    IsPermutation(a, b) => DrugResponseCacheKey(a) = DrugResponseCacheKey(b)

\* C27: two requests of POST /api/diagnosis whose phenotype lists are
\* rearrangements of each other look up the same cache entry: the phenotype
\* lookup of a request misses only if the cache holds no phenotype mapping
\* for any rearrangement of its list.
C27_PermutationsShareEntry ==
  [][(handler.pc = "phenotype" /\ proc[1].pc = "get" /\ proc'[1].pc = "fn")
       => \A phenotype \in PhenotypeLists :
            IsPermutation(handler.phenotype, phenotype)
              => get("variants", PhenotypeCacheKey(phenotype)) = JsNull]_vars

\* two different hgvs strings have two different variant keys
C28_VariantKeysDiffer ==
  \A h1 \in Keys, h2 \in Keys :
    h1 # h2 => /\ VariantCacheKey(h1) # VariantCacheKey(h2)
               /\ getKey("variants", VariantCacheKey(h1))
                    # getKey("variants", VariantCacheKey(h2))

\* an item served from the cache carries the result of its own variant
C28_ServedOwnResult ==
  \A p \in Procs :
    (vreq.item[p].pc = "done" /\ vreq.item[p].result # NoResult
     /\ vreq.item[p].result.source = "cache")
      => vreq.item[p].result.value = VariantData(vreq.item[p].hgvs)

\* C28: the variant cache key is injective on hgvs strings, so the variant
\* routes never serve one variant's cached result for another variant.
C28_KeyInjective == C28_VariantKeysDiffer /\ C28_ServedOwnResult

\* with the results of both variants cached, a request for h2 is served h2's
\* result from the cache
C28_Witness ==
  /\ kv[getKey("variants", VariantCacheKey("h1"))] # NoKV
  /\ kv[getKey("variants", VariantCacheKey("h2"))] # NoKV
  /\ \E p \in Procs :
       /\ vreq.item[p].pc = "done" /\ vreq.item[p].hgvs = "h2"
       /\ vreq.item[p].result = [value |-> VariantData("h2"), source |-> "cache"]

\* ------------------------------------------------- batchExecute: claims
\* C29: batchExecute(tasks, {concurrency: c}) never has more than c tasks in
\* flight (started and not yet settled) at the same time.
C29_AtMostConcurrencyInFlight ==
  bx.pc # "idle" => Cardinality(InFlight(bx)) <= bx.concurrency

\* with the default options, the wait before each further attempt is double
\* the previous one, starting at retryDelay
BackoffDoubles(t) ==
  \A k \in DOMAIN bx.task[t].waits :
    bx.task[t].waits[k] = IF k = 1 THEN DefaultRetryDelay
                          ELSE 2 * bx.task[t].waits[k - 1]

\* C30: with the default options a task that keeps failing is invoked 3
\* times in total, each wait is double the previous one starting at
\* retryDelay, and its error is raised after the last attempt.
C30_ThreeAttempts ==
  \A t \in Tasks :
    bx.retries = DefaultRetries
      => /\ bx.task[t].calls <= 3
         /\ BackoffDoubles(t)
         /\ bx.task[t].st = "rejected" => bx.task[t].calls = 3

\* ------------------------------------------------ diagnosis cache: claims
\* the diagnoses produced under the id of a lookup less than the TTL before it
LiveFor(lookup, produced) ==
  {d \in produced : d.id = lookup.id /\ d.at <= lookup.at
                    /\ lookup.at < d.at + CACHE_TTL_DIAGNOSIS}

\* C31: GET /api/diagnosis/<id> returns exactly the result a POST produced
\* under that id less than 3600 seconds before, and 404 "Diagnosis not found"
\* for an id never produced or expired; a POST answered 500 leaves the
\* diagnosis entries as they were.
C31_CachedForOneHour ==
  [][/\ dx'.lookup # dx.lookup
        => LET live == LiveFor(dx'.lookup, dx.produced)
           IN /\ \A d \in live : dx'.lookup.status = 200
                                 /\ dx'.lookup.body = d.result
              /\ live = {} => /\ dx'.lookup.status = 404
                              /\ dx'.lookup.body = "Diagnosis not found"
     /\ (handler'.status = 500 /\ handler # handler')
        => \A id \in DiagnosisIds :
             kv'[getKey("variants", DiagnosisCacheKey(id))]
               = kv[getKey("variants", DiagnosisCacheKey(id))]]_vars

\* ------------------------------------------------ batchExecute: the result
\* C32: when the promise of batchExecute(tasks) resolves, every task has
\* settled successfully and the returned array holds the result of tasks[i] at
\* every index i, with no missing slot.
C32_ResolvesWithEveryResult ==
  bx.outcome = "resolved" => bx.returned = 1..bx.n

\* C33: batchExecute does not resolve while one of its tasks has failed or is
\* still running, and once it has settled with a task failed after its last
\* retry, it has rejected.
C33_RejectsWhenATaskFails ==
  [][/\ (bx'.outcome = "resolved" /\ bx.outcome # "resolved")
          => \A t \in 1..bx'.n : bx'.task[t].st = "fulfilled"
     /\ (bx'.pc = "done" /\ \E t \in 1..bx'.n : bx'.task[t].st = "rejected")
          => bx'.outcome = "rejected"]_vars

C35_StoreAfterDelete ==
  \A r \in Reqs :
    /\ (req[r].pc = "json" /\ req'[r].pc = "put" /\ reads[req[r].hgvs] = -1)
         => /\ heap'[req'[r].ref].access_count = 0
            /\ heap'[req'[r].ref].created_at = now
            /\ variants'[req[r].hgvs] = req'[r].ref
            /\ base'[req[r].hgvs] = 0 /\ reads'[req[r].hgvs] = 0
    /\ (req[r].pc = "put" /\ req'[r].pc = "done" /\ req'[r].method = "GET"
        /\ req'[r].result = "ok"
        /\ base[req[r].hgvs] = 0 /\ reads[req[r].hgvs] = 0)
         => req'[r].resp.access_count = 1

C35_DeleteDiscardsHistory == [][C35_StoreAfterDelete]_vars

\* an entry created at time 1 and read once was deleted and then stored
\* again at time 2
C35_Witness ==
  \E r, q \in Reqs :
    /\ Done(q) /\ req[q].method = "DELETE" /\ req[q].result = "ok"
    /\ req[q].snap[req[q].hgvs] # NoEntry
    /\ req[q].snap[req[q].hgvs].access_count = 1
    /\ req[q].snap[req[q].hgvs].created_at = 1
    /\ Done(r) /\ req[r].method = "POST" /\ req[r].result = "ok"
    /\ req[r].hgvs = req[q].hgvs
    /\ req[r].resp.access_count = 0 /\ req[r].resp.created_at = 2
    /\ storage[req[r].hgvs] = req[r].resp

\* ------------------------------------------------ registry: keys
\* C36: in every state of an instance and of its storage, each record the
\* index or storage holds, and each record on its way to storage, is under
\* the key equal to its own hgvs field.
C36_KeyedByHgvs ==
  /\ \A k \in Keys : variants[k] # 0 => heap[variants[k]].hgvs = k
  /\ \A k \in Keys : storage[k] # NoEntry => storage[k].hgvs = k
  /\ \A i \in DOMAIN sq : sq[i].op = "put" => sq[i].value.hgvs = sq[i].key

\* both hgvs were stored and one of them was read, index and storage hold both
C36_Witness ==
  /\ \A k \in Keys : variants[k] # 0 /\ storage[k] # NoEntry
  /\ \E r \in Reqs : /\ Done(r) /\ req[r].method = "GET" /\ req[r].result = "ok"
                     /\ storage[req[r].hgvs] = req[r].resp

\* ------------------------------------------------ worker and registry
\* C37: the only request the worker sends to a registry shard is GET /stats
\* on the shard named "global-stats"; the shard, starting from empty storage,
\* holds no entry in any state, no step changes its index or storage, and every
\* answered GET /api/variants/registry/stats reports total_variants = 0.
C37_OnlyStatsReachTheRegistry ==
  /\ vreq.sent \subseteq
       {[shard |-> "global-stats", method |-> "GET", path |-> "/stats"]}
  /\ \A r \in Reqs : req[r].method \in {"NONE", "STATS"}
  /\ storage = EmptyView
  /\ \A k \in Keys : variants[k] = 0
  /\ (vreq.route = "stats" /\ vreq.pc = "done")
       => /\ vreq.status = 200 => vreq.stats.total_variants = 0
          /\ vreq.status # 200 => vreq.thrown # "none"

\* the statistics were answered after a variant lookup went upstream and
\* cached its result
C37_Witness ==
  /\ vreq.route = "stats" /\ vreq.pc = "done" /\ vreq.status = 200
  /\ vreq.stats.total_variants = 0
  /\ \E h \in Keys : kv[getKey("variants", VariantCacheKey(h))] # NoKV

\* ------------------------------------------------ drug responses: claims
\* the key of a request is the same whatever its list of variants
DrugKeyIgnoresVariants ==
  \A a \in GeneLists, b \in GeneLists, v \in VariantLists, w \in VariantLists :
    IsPermutation(a, b) => DrugCacheKey(a, v) = DrugCacheKey(b, w)

====
